---- MODULE Spec2Model ----
(***************************************************************************)
(* Model of the Prime Bank dashboard backend.                              *)
(*                                                                         *)
(*   src/json_files/flask_dashboard_api.py   scraper trigger and status    *)
(*   src/json_files/dashboard_analytics.py   overview cache, action items  *)
(*   src/app/main.py                         paginated full-data views     *)
(*                                                                         *)
(* Eight specifications share the variables below; each one moves the      *)
(* part of the state its component owns and leaves the rest alone:         *)
(*   SpecScraper   reanalyze / run_scraper / status and dashboard reads    *)
(*   SpecScraperFair  the same with fair worker threads                    *)
(*   SpecPage      the three /api/full-data views                          *)
(*   SpecOverview  generate_ai_overview and the dashboard's overview read  *)
(*   SpecRank      get_action_items, get_top_posts, POST /api/full_data    *)
(*   SpecStats     the category, sentiment and emotion distributions       *)
(*   SpecDocument  get_complete_dashboard_data with its whole document     *)
(*   SpecFilter    GET /api/action-items of main.py                        *)
(***************************************************************************)
EXTENDS Integers, Sequences, FiniteSets, Bags, TLC

VARIABLES
    scraper_status,   \* the module-level dict of flask_dashboard_api.py
    threads,          \* the bag of live run_scraper threads: position and locals
    now,              \* the wall clock read by datetime.now(), in seconds
    nreq,             \* number of HTTP requests handled so far
    resp,             \* the response of the request this step handled (NoResp
                      \* when the step was not the handling of a request)
    FULL_DATA,        \* main.py: the document loaded from full_data.json
    DASHBOARD_DATA,   \* main.py: the document loaded from dashboard_data.json
    fs,               \* dashboard_analytics.py: the files the overview reads and writes
    api_key,          \* DashboardAnalytics.api_key (TRUE when a credential is configured)
    ncalls,           \* number of calls made to the narrative service
    csv               \* the rows of the posts and comments CSV files, and
                      \* whether the posts CSV exists

vars ==
    <<scraper_status, threads, now, nreq, resp, FULL_DATA, DASHBOARD_DATA, fs, api_key, ncalls,
      csv>>

\* None of Python, and a value wrapped so that it can be told from None.
None == <<>>
Some(x) == <<x>>
Val(o) == o[1]

(***************************************************************************)
(* Bounds of the model.                                                    *)
(***************************************************************************)
MaxReq == 2          \* HTTP requests handled in one behaviour of SpecScraper
MaxNow == 1          \* last clock value of SpecScraper, in seconds
MaxCount == 1        \* largest count printed by the pipeline

(***************************************************************************)
(* flask_dashboard_api.py: request bodies.                                 *)
(* A JSON value of a post-count parameter is <<kind, v>>:                  *)
(*   <<"absent", 0>>  the key is missing        <<"null", 0>>    null      *)
(*   <<"int", n>>     the integer n             <<"numstr", n>>  "n"       *)
(*   <<"float", t>>   the number t/10           <<"str", 0>>     "abc"     *)
(*   <<"decstr", t>>  the text of the decimal t/10, such as "1.5"          *)
(***************************************************************************)
DEFAULT_PRIME_BANK_POSTS == 20
DEFAULT_OTHER_BANKS_POSTS == 15
MIN_POSTS == 1
MAX_POSTS == 200

RawCounts ==
    { <<"absent", 0>>, <<"null", 0>>, <<"str", 0>>,
      <<"int", 0>>, <<"int", 200>>, <<"int", 201>>, <<"float", 15>> }

\* request_data.get(key, default)
DictGet(raw, default) == IF raw[1] = "absent" THEN <<"int", default>> ELSE raw

\* int(x) raises ValueError or TypeError
IntRaises(raw) == raw[1] \in {"null", "str", "decstr"}

\* int(x): an int is itself, a numeric string is parsed, a float is truncated
\* towards zero.
PyInt(raw) ==
    CASE raw[1] = "float" -> IF raw[2] >= 0 THEN raw[2] \div 10 ELSE -((-raw[2]) \div 10)
      [] OTHER -> raw[2]

(***************************************************************************)
(* flask_dashboard_api.py: the scraper status record and its worker.       *)
(***************************************************************************)
\* scraper_status as the module sets it at import
InitScraperStatus ==
    [ status |-> "idle", last_run |-> None, duration_seconds |-> 0,
      posts_scraped |-> 0, comments_scraped |-> 0, start_time |-> None ]

\* A thread that threading.Thread.start() has just started: it is about to
\* run line 68 and has no locals yet.
NewThread == [ pc |-> "l68", end_time |-> 0, duration |-> 0, re_bound |-> FALSE ]

NoResp == [ op |-> "none", code |-> 0 ]

\* scraper_status.copy() followed by del status['start_time']
StatusSnapshot(st) ==
    [ status |-> st.status, last_run |-> st.last_run,
      duration_seconds |-> st.duration_seconds,
      posts_scraped |-> st.posts_scraped, comments_scraped |-> st.comments_scraped ]

\* The number of workers that are active: started and not yet returned from
\* run_scraper. A thread leaves the bag when run_scraper returns.
ActiveWorkers == BagCardinality(threads)

\* The lines the pipeline prints, as the parsing loop sees them: which branch
\* the lower-cased line takes ("posts": it contains 'posts scraped';
\* "comments": it contains 'comments scraped' and not 'posts scraped';
\* "other": neither) and the numbers re.findall(r'\d+', line) finds in it.
OutputLine ==
    { <<"other", <<>>>>, <<"posts", <<>>>>, <<"comments", <<>>>> }
    \cup { <<k, <<n>>>> : k \in {"posts", "comments"}, n \in 1..MaxCount }

\* lines 118-128 with a count set to 0 when its line holds no number
ParseLine_zero_without_number(line, st) ==
    LET kind == line[1]
        numbers == line[2]
    IN  CASE kind = "posts" ->
                [st EXCEPT !.posts_scraped = IF numbers # <<>> THEN numbers[1] ELSE 0]
          [] kind = "comments" ->
                [st EXCEPT !.comments_scraped = IF numbers # <<>> THEN numbers[1] ELSE 0]
          [] OTHER -> st

\* Lines 118-128, one line of the output: the new posts_scraped and
\* comments_scraped. The number taken is the first one found in the line.
ParseLine(line, st) ==
    LET kind == line[1]
        numbers == line[2]
    IN  CASE kind = "posts" /\ numbers # <<>> -> [st EXCEPT !.posts_scraped = numbers[1]]
          [] kind = "comments" /\ numbers # <<>> -> [st EXCEPT !.comments_scraped = numbers[1]]
          [] OTHER -> st

\* `import re` sits inside the 'posts scraped' branch (line 121), which makes
\* re a local name of run_scraper: the 'comments scraped' branch (line 126)
\* raises UnboundLocalError unless a 'posts scraped' line came first, and the
\* except clause of line 129 then ends the loop.
ReRaises(line, re_bound) == line[1] = "comments" /\ ~re_bound

ScraperFrame == UNCHANGED <<FULL_DATA, DASHBOARD_DATA, fs, api_key, ncalls, csv>>

\* The test of line 206 left out: a run is started whatever the status reads.
AlreadyRunning_unchecked(st) == FALSE

\* Line 206: a run is refused while the status reads 'running'.
AlreadyRunning(st) == st.status = "running"

\* Lines 218-221
OutOfRange(n) == n < MIN_POSTS \/ n > MAX_POSTS

\* Lines 229-231: threading.Thread(target=run_scraper, ...).start()
StartThread(ths) == ths (+) SetToBag({NewThread})

\* POST /api/reanalyze, lines 192-243. content_ok: the body is a JSON object
\* whose 'content' is 'reanalyze'. The handler reads scraper_status once, at
\* line 206, and writes nothing but the new thread, so it is one step.
Reanalyze(content_ok, raw_prime, raw_other) ==
    /\ nreq < MaxReq
    /\ nreq' = nreq + 1
    /\ LET prime == DictGet(raw_prime, DEFAULT_PRIME_BANK_POSTS)
           other == DictGet(raw_other, DEFAULT_OTHER_BANKS_POSTS)
           request == [ prime_bank_posts |-> raw_prime, other_banks_posts |-> raw_other ]
           reject(msg) ==
               /\ resp' = [ op |-> "reanalyze", request |-> request, code |-> 400,
                            error |-> msg ]
               /\ UNCHANGED threads
       IN  IF ~content_ok THEN reject("invalid request")
           ELSE IF AlreadyRunning(scraper_status) THEN reject("already running")
           ELSE IF IntRaises(prime) \/ IntRaises(other) THEN reject("must be integers")
           ELSE IF OutOfRange(PyInt(prime)) THEN reject("prime_bank_posts out of range")
           ELSE IF OutOfRange(PyInt(other)) THEN reject("other_banks_posts out of range")
           ELSE /\ threads' = StartThread(threads)
                /\ resp' = [ op |-> "reanalyze", request |-> request, code |-> 200,
                             scraping_status |-> "running",
                             configuration |-> <<PyInt(prime), PyInt(other)>> ]
    /\ UNCHANGED <<scraper_status, now>>
    /\ ScraperFrame

\* GET /api/status, lines 360-366
GetScraperStatus ==
    /\ resp' = [ op |-> "status", code |-> 200, body |-> StatusSnapshot(scraper_status) ]
    /\ UNCHANGED <<scraper_status, threads, now, nreq>>
    /\ ScraperFrame

\* datetime.now() moves on
Tick ==
    /\ now < MaxNow
    /\ now' = now + 1
    /\ resp' = NoResp
    /\ UNCHANGED <<scraper_status, threads, nreq>>
    /\ ScraperFrame

WorkerFrame == resp' = NoResp /\ UNCHANGED <<now, nreq>> /\ ScraperFrame

\* Thread t moves on to t2, or returns from run_scraper.
Becomes(t, t2) == threads' = (threads (-) SetToBag({t})) (+) SetToBag({t2})
Returns(t) == threads' = threads (-) SetToBag({t})
Goto(t, pc) == Becomes(t, [t EXCEPT !.pc = pc])

\* line 68
W_l68(t) ==
    /\ t.pc = "l68"
    /\ scraper_status' = [scraper_status EXCEPT !.status = "running"]
    /\ Goto(t, "l69")
    /\ WorkerFrame

\* line 69
W_l69(t) ==
    /\ t.pc = "l69"
    /\ scraper_status' = [scraper_status EXCEPT !.start_time = Some(now)]
    /\ Goto(t, "l76")
    /\ WorkerFrame

\* Lines 72-106: the pipeline subprocess runs and exits with return_code, and
\* the worker takes end_time and the duration since scraper_status['start_time'].
\* None of these lines writes shared state, so they are one step.
W_l76_exit(t, return_code) ==
    /\ t.pc = "l76"
    /\ Becomes(t, [t EXCEPT !.pc = IF return_code = 0 THEN "l112" ELSE "l137",
                             !.end_time = now,
                             !.duration = now - Val(scraper_status.start_time)])
    /\ UNCHANGED scraper_status
    /\ WorkerFrame

\* Lines 72-95 raise (os.chdir, Popen or reading the pipe): control goes to
\* the except clause of line 141.
W_l76_raise(t) ==
    /\ t.pc = "l76"
    /\ Goto(t, "l145")
    /\ UNCHANGED scraper_status
    /\ WorkerFrame

\* lines 112, 137 and 145 writing 'running' once more
EndStatus_still_running(pc) == "running"

\* The status a run ends with: lines 112, 137 and 145.
EndStatus(pc) == IF pc = "l112" THEN "completed" ELSE "failed"

\* lines 112, 137 and 145
W_set_status(t) ==
    /\ t.pc \in {"l112", "l137", "l145"}
    /\ scraper_status' = [scraper_status EXCEPT !.status = EndStatus(t.pc)]
    /\ Goto(t, CASE t.pc = "l112" -> "l113" [] t.pc = "l137" -> "l138" [] OTHER -> "l146")
    /\ WorkerFrame

\* lines 113 and 138: last_run = end_time.isoformat()
W_set_last_run(t) ==
    /\ t.pc \in {"l113", "l138"}
    /\ scraper_status' = [scraper_status EXCEPT !.last_run = Some(t.end_time)]
    /\ Goto(t, IF t.pc = "l113" THEN "l114" ELSE "l139")
    /\ WorkerFrame

\* lines 114 and 139: duration_seconds = round(duration); the failed run
\* returns after line 139.
W_set_duration(t) ==
    /\ t.pc \in {"l114", "l139"}
    /\ scraper_status' = [scraper_status EXCEPT !.duration_seconds = t.duration]
    /\ IF t.pc = "l114" THEN Goto(t, "l118") ELSE Returns(t)
    /\ WorkerFrame

\* Lines 118-128, one iteration of the loop over output_lines. The lines
\* are local to the worker and read here for the first time, so each is
\* chosen when the loop reaches it.
W_l118_line(t, line) ==
    /\ t.pc = "l118"
    /\ IF ReRaises(line, t.re_bound)
       THEN /\ UNCHANGED scraper_status
            /\ Returns(t)
       ELSE /\ scraper_status' = ParseLine(line, scraper_status)
            /\ Becomes(t, [t EXCEPT !.re_bound = t.re_bound \/ line[1] = "posts"])
    /\ WorkerFrame

\* The loop of line 118 reaches the end of output_lines: run_scraper returns.
W_l118_end(t) ==
    /\ t.pc = "l118"
    /\ UNCHANGED scraper_status
    /\ Returns(t)
    /\ WorkerFrame

\* line 146: last_run = datetime.now().isoformat()
W_l146(t) ==
    /\ t.pc = "l146"
    /\ scraper_status' = [scraper_status EXCEPT !.last_run = Some(now)]
    /\ Goto(t, "l147")
    /\ WorkerFrame

\* lines 147-149
W_l147(t) ==
    /\ t.pc = "l147"
    /\ scraper_status' =
          IF scraper_status.start_time # None
          THEN [scraper_status EXCEPT !.duration_seconds = now - Val(scraper_status.start_time)]
          ELSE scraper_status
    /\ Returns(t)
    /\ WorkerFrame

\* run_scraper, lines 58-149, one statement that touches scraper_status at a time
run_scraper(t) ==
    \/ W_l68(t)
    \/ W_l69(t)
    \/ \E return_code \in {0, 1} : W_l76_exit(t, return_code)
    \/ W_l76_raise(t)
    \/ W_set_status(t)
    \/ W_set_last_run(t)
    \/ W_set_duration(t)
    \/ \E line \in OutputLine : W_l118_line(t, line)
    \/ W_l118_end(t)
    \/ W_l146(t)
    \/ W_l147(t)

\* The state of the other components while the scraper is looked at.
NoFullData == [ Posts |-> <<>>, Comments |-> <<>> ]
NoDashboardData == [ action_items |-> <<>> ]
NoFiles == [ posts_file |-> None, ai_overview_file |-> None, other_banks_file |-> None ]
NoCsv == [ posts |-> <<>>, comments |-> <<>>, posts_file_exists |-> FALSE ]

(***************************************************************************)
(* main.py: the three paginated views of FULL_DATA.                        *)
(***************************************************************************)
MaxPosts == 120      \* most posts in full_data.json
MaxComments == 52    \* most comments in full_data.json
MaxPage == 5         \* largest page number asked for

Min(a, b) == IF a < b THEN a ELSE b
Max(a, b) == IF a > b THEN a ELSE b

\* s[i:j] of Python, for i and j of either sign
SliceIndex(i, n) == IF i < 0 THEN Max(n + i, 0) ELSE Min(i, n)
PySlice(s, i, j) == SubSeq(s, SliceIndex(i, Len(s)) + 1, SliceIndex(j, Len(s)))

\* The n items of one list of full_data.json, told apart by kind and position.
Items(kind, n) == [i \in 1..n |-> <<kind, i>>]

\* The <page_no> segment of the URL: a string that int() parses, or one it
\* does not ("abc", "1.5").
PageArgs ==
    { <<"str", 0>>, <<"decstr", 15>> } \cup { <<"numstr", n>> : n \in (-1)..MaxPage }

\* lines 468-471 without the test of line 470
BadPage_any_integer(page_no) == IntRaises(page_no)

\* Lines 468-471: int(page_no) raises, or the page is below 1.
BadPage(page_no) == IntRaises(page_no) \/ PyInt(page_no) < 1

ITEMS_PER_PAGE_FULL == 50
ITEMS_PER_PAGE_POSTS == 25
ITEMS_PER_PAGE_COMMENTS == 25

\* total_pages as one more than the whole pages, wrong when the last is full
TotalPages_plus_one(total_items, items_per_page) == total_items \div items_per_page + 1

\* lines 514, 561 and 606
TotalPages(total_items, items_per_page) ==
    (total_items + items_per_page - 1) \div items_per_page

\* line 497 without the clamp at 0
FillStart_unclamped(start_idx, posts_len) == start_idx - posts_len

\* line 497: where the comments that fill up a page of posts start
FillStart(start_idx, posts_len) == Max(0, start_idx - posts_len)

\* lines 479-510 without the comments that fill up or follow the posts
CombinedItems_posts_only(posts, comments, page) ==
    LET start_idx == (page - 1) * ITEMS_PER_PAGE_FULL
    IN  IF start_idx < Len(posts)
        THEN PySlice(posts, start_idx, start_idx + ITEMS_PER_PAGE_FULL)
        ELSE <<>>

\* lines 479-510: the items of page `page` of the combined view
CombinedItems(posts, comments, page) ==
    LET items_per_page == ITEMS_PER_PAGE_FULL
        start_idx == (page - 1) * items_per_page
        end_idx == start_idx + items_per_page
        posts_len == Len(posts)
        comments_len == Len(comments)
        posts_slice == IF start_idx < posts_len THEN PySlice(posts, start_idx, end_idx)
                       ELSE <<>>
        num_posts == Len(posts_slice)
        remaining == items_per_page - num_posts
        fill_start == FillStart(start_idx, posts_len)
        fill == IF num_posts < items_per_page
                THEN IF fill_start < comments_len
                     THEN PySlice(comments, fill_start, fill_start + remaining)
                     ELSE <<>>
                ELSE <<>>
        comments_start == start_idx - posts_len
        comments_slice ==
            IF num_posts = 0
            THEN IF comments_start < comments_len
                 THEN PySlice(comments, comments_start, comments_start + items_per_page)
                 ELSE <<>>
            ELSE fill
    IN  posts_slice \o comments_slice

\* lines 555-560 with the page number taken as counted from 0
SingleItems_zero_based(list, page, items_per_page) ==
    LET start_idx == page * items_per_page
        end_idx == start_idx + items_per_page
    IN  IF start_idx < Len(list) THEN PySlice(list, start_idx, end_idx) ELSE <<>>

\* lines 555-560 and 600-605: the items of page `page` of a single list
SingleItems(list, page, items_per_page) ==
    LET start_idx == (page - 1) * items_per_page
        end_idx == start_idx + items_per_page
    IN  IF start_idx < Len(list) THEN PySlice(list, start_idx, end_idx) ELSE <<>>

BadPageResponse(view, page_no) ==
    [ op |-> view, request |-> page_no, code |-> 400, success |-> FALSE ]

PageResponse(view, page_no, items, total_items, items_per_page) ==
    [ op |-> view, request |-> page_no, code |-> 200, success |-> TRUE,
      items |-> items,
      current_page |-> PyInt(page_no),
      total_pages |-> TotalPages(total_items, items_per_page),
      number_of_pages |-> TotalPages(total_items, items_per_page),
      items_per_page |-> items_per_page,
      total_items |-> total_items ]

PageFrame ==
    UNCHANGED <<scraper_status, threads, now, nreq, FULL_DATA, DASHBOARD_DATA, fs, api_key,
                 ncalls, csv>>

\* GET /api/full-data/<page_no>, lines 463-538
get_full_data(page_no) ==
    /\ resp' = IF BadPage(page_no) THEN BadPageResponse("full-data", page_no)
               ELSE PageResponse("full-data", page_no,
                                 CombinedItems(FULL_DATA.Posts, FULL_DATA.Comments,
                                               PyInt(page_no)),
                                 Len(FULL_DATA.Posts) + Len(FULL_DATA.Comments),
                                 ITEMS_PER_PAGE_FULL)
    /\ PageFrame

\* GET /api/full-data/posts/<page_no>, lines 540-583
get_full_posts(page_no) ==
    /\ resp' = IF BadPage(page_no) THEN BadPageResponse("full-data/posts", page_no)
               ELSE PageResponse("full-data/posts", page_no,
                                 SingleItems(FULL_DATA.Posts, PyInt(page_no),
                                             ITEMS_PER_PAGE_POSTS),
                                 Len(FULL_DATA.Posts), ITEMS_PER_PAGE_POSTS)
    /\ PageFrame

\* GET /api/full-data/comments/<page_no>, lines 585-628
get_full_comments(page_no) ==
    /\ resp' = IF BadPage(page_no) THEN BadPageResponse("full-data/comments", page_no)
               ELSE PageResponse("full-data/comments", page_no,
                                 SingleItems(FULL_DATA.Comments, PyInt(page_no),
                                             ITEMS_PER_PAGE_COMMENTS),
                                 Len(FULL_DATA.Comments), ITEMS_PER_PAGE_COMMENTS)
    /\ PageFrame

\* full_data.json as loaded at import, lines 459-461
InitPage ==
    /\ \E n \in 0..MaxPosts, m \in 0..MaxComments :
          FULL_DATA = [ Posts |-> Items("post", n), Comments |-> Items("comment", m) ]
    /\ scraper_status = InitScraperStatus
    /\ threads = EmptyBag
    /\ now = 0
    /\ nreq = 0
    /\ resp = NoResp
    /\ DASHBOARD_DATA = NoDashboardData
    /\ fs = NoFiles
    /\ api_key = FALSE
    /\ ncalls = 0
    /\ csv = NoCsv

NextPage ==
    \/ \E page_no \in PageArgs : get_full_data(page_no)
    \/ \E page_no \in PageArgs : get_full_posts(page_no)
    \/ \E page_no \in PageArgs : get_full_comments(page_no)

SpecPage == InitPage /\ [][NextPage]_vars

PageViews == {"full-data", "full-data/posts", "full-data/comments"}

\* 'all posts followed by all comments'
AllItems == FULL_DATA.Posts \o FULL_DATA.Comments

\* the items of a sequence at the 0-based positions lo .. hi-1 that exist
Window(s, lo, hi) ==
    LET k == Max(0, Min(hi, Len(s)) - lo)
    IN  [i \in 1..k |-> s[lo + i]]

\* C3: for every page number p >= 1 the items of GET /api/full-data/<p> are
\* the slice [(p-1)*50 : p*50] of 'all posts followed by all comments'.
C3_CombinedPageIsSlice ==
    (resp.op = "full-data" /\ resp.code = 200)
    => /\ resp.current_page >= 1
       /\ resp.items = Window(AllItems, (resp.current_page - 1) * 50, resp.current_page * 50)

\* C3 witness: a page past the first that ends the posts and begins the comments.
C3_Witness ==
    /\ resp.op = "full-data"
    /\ resp.code = 200
    /\ resp.current_page >= 2
    /\ Len(resp.items) = 50
    /\ resp.items[1][1] = "post"
    /\ resp.items[50] = <<"comment", 50 - (Len(FULL_DATA.Posts) - 50)>>

\* The list a view pages through.
ViewList(view) ==
    CASE view = "full-data" -> AllItems
      [] view = "full-data/posts" -> FULL_DATA.Posts
      [] OTHER -> FULL_DATA.Comments

\* ceil(n / d) by its definition: the least k with k * d >= n
Ceil(n, d) == CHOOSE k \in 0..n : k * d >= n /\ (k = 0 \/ (k - 1) * d < n)

\* C4: every page of the three views has at most items_per_page items and is
\* empty exactly when current_page > total_pages = ceil(total / items_per_page);
\* a request for a page >= 1 always succeeds, echoing the page and the totals.
C4_PageInvariant ==
    resp.op \in PageViews
    => /\ (resp.code = 200) = ~(IntRaises(resp.request) \/ PyInt(resp.request) < 1)
       /\ resp.code = 200
          => /\ Len(resp.items) <= resp.items_per_page
             /\ (resp.items = <<>>) = (resp.current_page > resp.total_pages)
             /\ resp.total_pages = Ceil(Len(ViewList(resp.op)), resp.items_per_page)
             /\ resp.current_page = resp.request[2]
             /\ resp.total_items = Len(ViewList(resp.op))
             /\ resp.success

\* C4 witness: a page beyond total_pages of a list that is not empty.
C4_Witness ==
    /\ resp.op \in PageViews
    /\ resp.code = 200
    /\ resp.total_pages >= 1
    /\ resp.current_page > resp.total_pages
    /\ resp.items = <<>>

\* C17: in each of the three views a page argument that is 0, negative or
\* not the text of an integer is answered 400 with success false, and no
\* page is computed for it: the response carries no items and no page
\* number.
C17_BadPageRejected ==
    ( /\ resp.op \in PageViews
      /\ (resp.request[1] # "numstr" \/ resp.request[2] <= 0) )
    => /\ resp.code = 400
       /\ resp.success = FALSE
       /\ DOMAIN resp = {"op", "request", "code", "success"}

\* C17 witness: the posts view has refused page 0 although there are posts,
\* so that there was a first page to clamp to.
C17_Witness ==
    /\ resp.op = "full-data/posts"
    /\ resp.request = <<"numstr", 0>>
    /\ resp.code = 400
    /\ Len(FULL_DATA.Posts) > 0

\* The items page p of a view carries, as its handler computes them.
PageItems(view, p) ==
    CASE view = "full-data" -> CombinedItems(FULL_DATA.Posts, FULL_DATA.Comments, p)
      [] view = "full-data/posts" -> SingleItems(FULL_DATA.Posts, p, ITEMS_PER_PAGE_POSTS)
      [] OTHER -> SingleItems(FULL_DATA.Comments, p, ITEMS_PER_PAGE_COMMENTS)

\* The items of pages 1..p of a view, in page order.
RECURSIVE PagesUpTo(_, _)
PagesUpTo(view, p) ==
    IF p = 0 THEN <<>> ELSE PagesUpTo(view, p - 1) \o PageItems(view, p)

ExampleLists == Len(FULL_DATA.Posts) = 120 /\ Len(FULL_DATA.Comments) = 30

\* C21 as stated: with 120 posts, 30 comments and page size 50, page 1 of
\* GET /api/full-data is posts[0:50], page 2 is posts[50:100] and page 3 is
\* posts[100:120] followed by comments[0:20].
C21_Original ==
    (ExampleLists /\ resp.op = "full-data" /\ resp.code = 200)
    => /\ resp.items_per_page = 50
       /\ resp.current_page = 1 => resp.items = Window(FULL_DATA.Posts, 0, 50)
       /\ resp.current_page = 2 => resp.items = Window(FULL_DATA.Posts, 50, 100)
       /\ resp.current_page = 3
          => resp.items = Window(FULL_DATA.Posts, 100, 120)
                           \o Window(FULL_DATA.Comments, 0, 20)

\* C21 amended: with 120 posts, 30 comments and page size 50, page 1 is
\* posts[0:50], page 2 is posts[50:100] and page 3 is posts[100:120]
\* followed by comments[0:30], all thirty comments: the page is filled up
\* to 50 items; the three pages are all there are.
C21_ExamplePages ==
    (ExampleLists /\ resp.op = "full-data" /\ resp.code = 200)
    => /\ resp.items_per_page = 50
       /\ resp.total_pages = 3
       /\ resp.current_page = 1 => resp.items = Window(FULL_DATA.Posts, 0, 50)
       /\ resp.current_page = 2 => resp.items = Window(FULL_DATA.Posts, 50, 100)
       /\ resp.current_page = 3
          => resp.items = Window(FULL_DATA.Posts, 100, 120)
                           \o Window(FULL_DATA.Comments, 0, 30)
       /\ resp.current_page > 3 => resp.items = <<>>

\* C21 witness: page 3 of the example has been served, 20 posts and then
\* comments.
C21_Witness ==
    /\ ExampleLists
    /\ resp.op = "full-data"
    /\ resp.code = 200
    /\ resp.current_page = 3
    /\ Len(resp.items) > 20
    /\ resp.items[20] = <<"post", 120>>
    /\ resp.items[21] = <<"comment", 1>>

(***************************************************************************)
(* dashboard_analytics.py: the AI overview and its cache file.             *)
(*                                                                         *)
(* fs.posts_file is output/all_extracted_posts/prime_bank/                 *)
(* all_extracted_posts.txt: None when absent, else Some(c), c naming its   *)
(* text. fs.ai_overview_file is dashboard_ai_overview.json: None when      *)
(* absent, else Some(f) with f either text that json.load rejects or a     *)
(* JSON object with an optional 'timestamp' and an optional 'data'.        *)
(* An overview value is [shape, origin, id]: shape tells whether it is a   *)
(* mapping with exactly the keys inquiry, praise, complaints, suggestions, *)
(* origin and id tell which text it holds.                                 *)
(***************************************************************************)
MaxCalls == 3        \* calls of generate_ai_overview and dashboard requests
MaxTicks == 4        \* clock steps of SpecOverview
MaxTexts == 2        \* different answers of the narrative service
MaxCorpus == 1       \* different texts of the posts file

TTL_SECONDS == 86400
HALF_DAY == 43200

\* lines 485-490
NoDataOverview == [ shape |-> "overview", origin |-> "nodata", id |-> 0 ]

\* lines 456-461 and 464-469: the defaults of load_ai_overview_from_file
NoOverviewAvailable == [ shape |-> "overview", origin |-> "no-data-in-file", id |-> 0 ]
ErrorLoadingOverview == [ shape |-> "overview", origin |-> "error-loading", id |-> 0 ]

\* _generate_fallback_overview, lines 603-655: a function of the text alone,
\* always with the four keys. The empty text has id 0.
Fallback(content) == [ shape |-> "overview", origin |-> "fallback", id |-> content ]

\* What the narrative service does when called (lines 571-587):
\*   "raise"      the call raises
\*   "notjson"    the text is not JSON
\*   "list"       the text is JSON but not an object
\*   "wrongkeys"  the text is a JSON object with other keys
\*   "overview"   the text is a JSON object with exactly the four keys
ServiceOutcomes ==
    { <<"raise", 0>>, <<"notjson", 0>>, <<"list", 0>>, <<"wrongkeys", 0>> }
    \cup { <<"overview", i>> : i \in 1..MaxTexts }

\* json.loads(overview_text) of line 583, for text that is JSON
JsonLoads(svc) == [ shape |-> svc[1], origin |-> "service", id |-> svc[2] ]

\* What writing the cache file does (lines 594-595): it succeeds, open()
\* raises and the file is untouched, or the write raises part-way and leaves
\* text that is not JSON.
WriteOutcomes == {"ok", "open_raises", "dump_raises"}

CorruptFile == [ kind |-> "corrupt" ]
Entry(ts, data) == [ kind |-> "entry", timestamp |-> ts, data |-> data ]

\* lines 589-592: the entry written at time t
CacheData(t, data) == Entry(<<"iso", t>>, Some(data))

\* line 499 with the comparison turned round
Recent_inverted(age) == age > TTL_SECONDS

\* line 499: the entry is recent
Recent(age) == age < TTL_SECONDS

\* Lines 493-503: the cached data the call returns, None when it goes on to
\* generate. json.load raising, a 'timestamp' fromisoformat rejects and a
\* missing 'data' all end in the except clause of line 502; a missing
\* 'timestamp' reads as 1970-01-01, which is never recent.
CachedOverview(force_regenerate, file, t) ==
    IF force_regenerate \/ file = None THEN None
    ELSE LET f == Val(file)
         IN  IF f.kind # "entry" THEN None
             ELSE IF f.timestamp[1] # "iso" THEN None
             ELSE IF ~Recent(t - f.timestamp[2]) THEN None
             ELSE f.data

\* Lines 505-601: what generating returns and what it leaves in the cache
\* file: <<value returned, file afterwards, line of the return, service called>>.
\* read_ok: the posts file can be read (line 507).
Generate(content, file, t, key, read_ok, svc, wr) ==
    IF ~read_ok THEN <<Fallback(0), file, 601, FALSE>>
    ELSE IF ~key THEN <<Fallback(content), file, 512, FALSE>>
    ELSE IF svc[1] = "raise" THEN <<Fallback(content), file, 601, TRUE>>
    ELSE LET overview_data == IF svc[1] = "notjson" THEN Fallback(content)
                              ELSE JsonLoads(svc)
         IN  CASE wr = "ok" ->
                    <<overview_data, Some(CacheData(t, overview_data)), 597, TRUE>>
               [] wr = "open_raises" -> <<Fallback(content), file, 601, TRUE>>
               [] OTHER -> <<Fallback(content), Some(CorruptFile), 601, TRUE>>

\* generate_ai_overview, lines 471-601:
\* <<value returned, file afterwards, line of the return, service called>>
GenerateAiOverview(force_regenerate, read_ok, svc, wr) ==
    IF fs.posts_file = None THEN <<NoDataOverview, fs.ai_overview_file, 485, FALSE>>
    ELSE LET cached == CachedOverview(force_regenerate, fs.ai_overview_file, now)
         IN  IF cached # None THEN <<Val(cached), fs.ai_overview_file, 501, FALSE>>
             ELSE Generate(Val(fs.posts_file), fs.ai_overview_file, now, api_key,
                           read_ok, svc, wr)

\* load_ai_overview_from_file, lines 439-469: None stands for the -1 of line 449
LoadAiOverviewFromFile(file) ==
    IF file = None THEN None
    ELSE LET f == Val(file)
         IN  IF f.kind # "entry" THEN Some(ErrorLoadingOverview)
             ELSE IF f.data = None THEN Some(NoOverviewAvailable)
             ELSE f.data

OverviewFrame ==
    UNCHANGED <<scraper_status, threads, now, FULL_DATA, DASHBOARD_DATA, api_key, csv>>

\* The state after a call that returned r = <<value, file, line, called>>.
OverviewEffect(r) ==
    /\ fs' = [fs EXCEPT !.ai_overview_file = r[2]]
    /\ ncalls' = IF r[4] THEN ncalls + 1 ELSE ncalls
    /\ nreq' = nreq + 1
    /\ OverviewFrame

\* a call of generate_ai_overview(force_regenerate)
generate_ai_overview(force_regenerate, read_ok, svc, wr) ==
    /\ nreq < MaxCalls
    /\ LET r == GenerateAiOverview(force_regenerate, read_ok, svc, wr)
       IN  /\ resp' = [ op |-> "generate_ai_overview", code |-> 200,
                        force |-> force_regenerate, data |-> r[1], line |-> r[3],
                        service |-> IF r[4] THEN svc[1] ELSE "not called" ]
           /\ OverviewEffect(r)

\* get_complete_dashboard_data, lines 671-673: the overview of a dashboard
\* request
get_complete_dashboard_data(read_ok, svc, wr) ==
    /\ nreq < MaxCalls
    /\ LET loaded == LoadAiOverviewFromFile(fs.ai_overview_file)
           r == IF loaded = None THEN GenerateAiOverview(TRUE, read_ok, svc, wr)
                ELSE <<Val(loaded), fs.ai_overview_file, 671, FALSE>>
       IN  /\ resp' = [ op |-> "dashboard", code |-> 200,
                        force |-> TRUE, data |-> r[1], line |-> r[3],
                        service |-> IF r[4] THEN svc[1] ELSE "not called" ]
           /\ OverviewEffect(r)

\* datetime.now() moves on by half a day, or by a second less
TickOverview(d) ==
    /\ now + d <= MaxTicks * HALF_DAY
    /\ now' = now + d
    /\ resp' = NoResp
    /\ UNCHANGED <<scraper_status, threads, nreq, FULL_DATA, DASHBOARD_DATA, fs, api_key,
                 ncalls, csv>>

\* The cache files a run can start with: none, one that is not JSON, an
\* entry written at time 0, entries lacking a key or with a bad timestamp.
InitCacheFiles ==
    { None, Some(CorruptFile),
      Some(Entry(<<"missing">>, Some(JsonLoads(<<"overview", 1>>)))),
      Some(Entry(<<"bad">>, Some(JsonLoads(<<"overview", 1>>)))),
      Some(Entry(<<"iso", 0>>, None)),
      Some(CacheData(0, JsonLoads(<<"overview", 1>>))),
      Some(CacheData(0, Fallback(1))) }

InitOverview ==
    /\ fs \in [ posts_file : {None} \cup { Some(c) : c \in 1..MaxCorpus },
                ai_overview_file : InitCacheFiles,
                other_banks_file : {None} ]
    /\ api_key \in BOOLEAN
    /\ ncalls = 0
    /\ now = 0
    /\ nreq = 0
    /\ resp = NoResp
    /\ scraper_status = InitScraperStatus
    /\ threads = EmptyBag
    /\ FULL_DATA = NoFullData
    /\ DASHBOARD_DATA = NoDashboardData
    /\ csv = NoCsv

NextOverview ==
    \/ \E force_regenerate \in BOOLEAN, read_ok \in BOOLEAN,
          svc \in ServiceOutcomes, wr \in WriteOutcomes :
          generate_ai_overview(force_regenerate, read_ok, svc, wr)
    \/ \E read_ok \in BOOLEAN, svc \in ServiceOutcomes, wr \in WriteOutcomes :
          get_complete_dashboard_data(read_ok, svc, wr)
    \/ \E d \in {HALF_DAY - 1, HALF_DAY} : TickOverview(d)

SpecOverview == InitOverview /\ [][NextOverview]_vars

\* The cache file holds an entry with a timestamp and data.
HasEntry ==
    /\ fs.ai_overview_file # None
    /\ Val(fs.ai_overview_file).kind = "entry"
    /\ Val(fs.ai_overview_file).timestamp[1] = "iso"
    /\ Val(fs.ai_overview_file).data # None
EntryAge == now - Val(fs.ai_overview_file).timestamp[2]
EntryData == Val(Val(fs.ai_overview_file).data)

\* The step is a call of generate_ai_overview without force_regenerate.
UnforcedCall == nreq' # nreq /\ resp'.op = "generate_ai_overview" /\ ~resp'.force

\* C5 as stated: generate_ai_overview(force_regenerate=False) called while a
\* cache entry younger than 24 hours exists returns that entry's data, calls
\* no service and leaves the cache file alone.
C5_Original ==
    [][ (UnforcedCall /\ HasEntry /\ EntryAge < 24 * 3600)
        => (resp'.data = EntryData /\ ncalls' = ncalls /\ fs' = fs) ]_vars

\* C5 amended: the same, when the posts file exists. Without the posts file
\* the call returns the 'No data available' mapping whatever the cache holds.
C5_CachedWithinTTL ==
    [][ (UnforcedCall /\ HasEntry /\ EntryAge < 24 * 3600 /\ fs.posts_file # None)
        => (resp'.data = EntryData /\ ncalls' = ncalls /\ fs' = fs) ]_vars

\* C5 witness: an unforced call has returned the data of an entry that the
\* code itself wrote earlier, a second short of 24 hours old.
C5_Witness ==
    /\ resp.op = "generate_ai_overview"
    /\ ~resp.force
    /\ resp.line = 501
    /\ HasEntry
    /\ EntryAge = 24 * 3600 - 1
    /\ resp.data = EntryData
    /\ ncalls >= 1

\* C6: no dashboard request is served overview data from a cache entry aged
\* 24 hours or more: the overview is generated anew before it is returned.
C6_DashboardNeverStale ==
    [][ (nreq' # nreq /\ resp'.op = "dashboard" /\ HasEntry /\ EntryAge >= 24 * 3600)
        => resp'.line \in {512, 597, 601} ]_vars

\* C7: whenever generate_ai_overview produces new overview data, from the
\* service or from the fallback generator, the cache file afterwards holds
\* {timestamp: now, data} with the data returned.
C7_GeneratedIsCached ==
    (resp.op \in {"generate_ai_overview", "dashboard"} /\ resp.line \in {512, 597, 601})
    => fs.ai_overview_file = Some([ kind |-> "entry", timestamp |-> <<"iso", now>>,
                                    data |-> Some(resp.data) ])

\* C25: cache writes are all-or-nothing. Whatever happens during a
\* regeneration, the step leaves the cache file exactly as it was or holding
\* the complete new entry {timestamp: now, data}, so that no later reader
\* finds a truncated entry.
C25_AllOrNothingWrite ==
    [][ fs'.ai_overview_file # fs.ai_overview_file
        => /\ resp'.op \in {"generate_ai_overview", "dashboard"}
           /\ fs'.ai_overview_file = Some(CacheData(now, resp'.data)) ]_vars

\* C8: every call of generate_ai_overview returns a mapping with exactly the
\* four keys; without a credential, when the service call fails, or when the
\* answer is not a JSON object with exactly those keys, the value returned is
\* the fallback overview.
C8_AlwaysFourKeys ==
    resp.op = "generate_ai_overview"
    => /\ resp.data.shape = "overview"
       /\ ( /\ resp.line \in {512, 597, 601}
            /\ (~api_key \/ resp.service \in {"raise", "notjson", "list", "wrongkeys"}) )
          => resp.data.origin = "fallback"

(***************************************************************************)
(* dashboard_analytics.py: get_action_items.                               *)
(*                                                                         *)
(* csv.posts and csv.comments are the rows csv.DictReader yields from      *)
(* prime_bank_facebook_posts_data.csv and prime_bank_comments_scraped.csv. *)
(* A cell is <<kind, v>>:                                                  *)
(*   <<"int", n>>     the text of the integer n                            *)
(*   <<"float", t>>   the text of the decimal t/10, such as "1.5"          *)
(*   <<"empty", 0>>   the empty string                                     *)
(*   <<"text", 0>>    text that is no number                               *)
(*   <<"none", 0>>    None: the row is shorter than the header             *)
(*   <<"absent", 0>>  the header has no such column                        *)
(* A timestamp cell is <<"iso", t>> (ISO text of the instant t seconds     *)
(* after the epoch, t < 0 for an instant before it), <<"empty", 0>> or     *)
(* <<"text", 0>>.                                                          *)
(* Scores are kept in tenths, so that 1.5 is 15.                           *)
(***************************************************************************)
MaxRows == 3         \* rows of the two CSV files together
MaxLimit == 2        \* largest posts_limit and comments_limit

\* float(row.get(col, 0)) raises ValueError or TypeError
FloatRaises(cell) == cell[1] \in {"empty", "text", "none"}

\* float(row.get(col, 0)), in tenths
CsvFloat(cell) ==
    CASE cell[1] = "int" -> 10 * cell[2]
      [] cell[1] = "float" -> cell[2]
      [] OTHER -> 0

\* int(row.get(col, 0)) raises ValueError or TypeError
IntCellRaises(cell) == cell[1] \in {"float", "empty", "text", "none"}

\* int(row.get(col, 0) or 0) raises ValueError
IntOrZeroRaises(cell) == cell[1] \in {"float", "text"}

\* int(row.get(col, 0)) and int(row.get(col, 0) or 0)
CsvInt(cell) == IF cell[1] = "int" THEN cell[2] ELSE 0

\* Lines 336-365: the action item of row number i of the posts CSV. One
\* try block covers the four conversions: if any raises, all four are 0.
PostItem(row, i) ==
    LET raises == \/ FloatRaises(row.virality_score)
                  \/ IntCellRaises(row.reaction_count)
                  \/ IntCellRaises(row.comments_count)
                  \/ IntCellRaises(row.share_count)
    IN  [ type |-> "post", row |-> i,
          virality_score |-> IF raises THEN 0 ELSE CsvFloat(row.virality_score),
          reaction_count |-> IF raises THEN 0 ELSE CsvInt(row.reaction_count),
          comments_count |-> IF raises THEN 0 ELSE CsvInt(row.comments_count),
          share_count |-> IF raises THEN 0 ELSE CsvInt(row.share_count),
          timestamp |-> <<"empty", 0>> ]

\* lines 377-407 with the score read from the row's virality_score column
CommentItem_sourced(row, i) ==
    LET raises == IntOrZeroRaises(row.likes_count) \/ IntOrZeroRaises(row.comments_count)
    IN  [ type |-> "comment", row |-> i,
          virality_score |-> CsvFloat(row.virality_score),
          reaction_count |-> IF raises THEN 0 ELSE CsvInt(row.likes_count),
          comments_count |-> IF raises THEN 0 ELSE CsvInt(row.comments_count),
          share_count |-> 0,
          timestamp |-> row.timestamp ]

\* Lines 377-407: the action item of row number i of the comments CSV, with
\* virality_score = likes + 2 * replies (in tenths).
CommentItem(row, i) ==
    LET raises == IntOrZeroRaises(row.likes_count) \/ IntOrZeroRaises(row.comments_count)
        likes_count == IF raises THEN 0 ELSE CsvInt(row.likes_count)
        comment_replies == IF raises THEN 0 ELSE CsvInt(row.comments_count)
    IN  [ type |-> "comment", row |-> i,
          virality_score |-> 10 * (likes_count + comment_replies * 2),
          reaction_count |-> likes_count,
          comments_count |-> comment_replies,
          share_count |-> 0,
          timestamp |-> row.timestamp ]

\* Tuples of numbers compared as Python compares them.
TupleLess(k1, k2) ==
    \E i \in 1..Len(k1) : k1[i] < k2[i] /\ \A j \in 1..(i - 1) : k1[j] = k2[j]

Last(s) == s[Len(s)]
Front(s) == SubSeq(s, 1, Len(s) - 1)

\* list.sort(key=...): a stable sort, ascending in the keys. pairs is a
\* sequence of <<key, item>>.
RECURSIVE InsertByKey(_, _)
InsertByKey(sorted, pair) ==
    IF sorted = <<>> THEN <<pair>>
    ELSE IF TupleLess(pair[1], Last(sorted)[1])
         THEN Append(InsertByKey(Front(sorted), pair), Last(sorted))
         ELSE Append(sorted, pair)

RECURSIVE StableSort(_)
StableSort(pairs) ==
    IF pairs = <<>> THEN <<>>
    ELSE InsertByKey(StableSort(Front(pairs)), Last(pairs))

\* line 415 without reverse=True
PostSortKey_ascending(post) == << post.virality_score >>

\* Line 415: sort(key=virality_score, reverse=True). A reversed stable sort
\* keeps equal items in their order, as the ascending sort on the negated
\* number does.
PostSortKey(post) == << -post.virality_score >>

\* line 426 without the minus sign on the timestamp
comment_sort_key_oldest_first(comment) ==
    IF comment.timestamp[1] = "iso"
    THEN << -comment.virality_score, comment.timestamp[2] >>
    ELSE << -comment.virality_score, 0 >>

\* Lines 419-430: the key of a comment. A timestamp that is empty, or that
\* fromisoformat rejects, gives 0 as the second component.
comment_sort_key(comment) ==
    IF comment.timestamp[1] = "iso"
    THEN << -comment.virality_score, -comment.timestamp[2] >>
    ELSE << -comment.virality_score, 0 >>

\* posts[:n] with n >= 0
Take(s, n) == SubSeq(s, 1, Min(n, Len(s)))

Items2(pairs) == [i \in 1..Len(pairs) |-> pairs[i][2]]

\* lines 327-437
ActionItems(posts_rows, comments_rows, posts_limit, comments_limit) ==
    LET posts == [i \in 1..Len(posts_rows) |-> PostItem(posts_rows[i], i)]
        comments == [i \in 1..Len(comments_rows) |-> CommentItem(comments_rows[i], i)]
        sorted_posts ==
            Items2(StableSort([i \in 1..Len(posts) |-> <<PostSortKey(posts[i]), posts[i]>>]))
        sorted_comments ==
            Items2(StableSort([i \in 1..Len(comments) |->
                                 <<comment_sort_key(comments[i]), comments[i]>>]))
        top_posts == Take(sorted_posts, posts_limit)
        top_comments == Take(sorted_comments, comments_limit)
    IN  top_posts \o top_comments

\* get_action_items(posts_limit, comments_limit), lines 308-437
get_action_items(posts_limit, comments_limit) ==
    /\ resp' = [ op |-> "get_action_items", code |-> 200,
                 posts_limit |-> posts_limit, comments_limit |-> comments_limit,
                 items |-> ActionItems(csv.posts, csv.comments, posts_limit, comments_limit) ]
    /\ UNCHANGED <<scraper_status, threads, now, nreq, FULL_DATA, DASHBOARD_DATA, fs, api_key,
                 ncalls, csv>>

\* Lines 287-298 of get_top_posts: row number i of the posts CSV with its
\* four numeric cells converted in place. One try block covers the four
\* conversions: if any raises, all four are 0.
TopPostRow(row, i) ==
    LET raises == \/ FloatRaises(row.virality_score)
                  \/ IntCellRaises(row.reaction_count)
                  \/ IntCellRaises(row.comments_count)
                  \/ IntCellRaises(row.share_count)
    IN  [ type |-> "post", row |-> i,
          virality_score |-> IF raises THEN 0 ELSE CsvFloat(row.virality_score),
          reaction_count |-> IF raises THEN 0 ELSE CsvInt(row.reaction_count),
          comments_count |-> IF raises THEN 0 ELSE CsvInt(row.comments_count),
          share_count |-> IF raises THEN 0 ELSE CsvInt(row.share_count) ]

\* lines 277-302 of get_top_posts
TopPosts(exists, rows, limit) ==
    LET posts == [i \in 1..Len(rows) |-> TopPostRow(rows[i], i)]
    IN  IF ~exists THEN <<>>
        ELSE Take(Items2(StableSort([i \in 1..Len(posts) |->
                                       <<PostSortKey(posts[i]), posts[i]>>])), limit)

\* get_top_posts(limit), lines 265-306
get_top_posts(limit) ==
    /\ resp' = [ op |-> "get_top_posts", code |-> 200, limit |-> limit,
                 items |-> TopPosts(csv.posts_file_exists, csv.posts, limit) ]
    /\ UNCHANGED <<scraper_status, threads, now, nreq, FULL_DATA, DASHBOARD_DATA, fs, api_key,
                 ncalls, csv>>

\* float(row.get(col, 0) or 0) raises ValueError
FloatOrZeroRaises(cell) == cell[1] = "text"

\* flask_dashboard_api.py, lines 283-296: building post_data raises. The
\* three int() conversions are bare and the loop sits in no try of its own.
PostDataRaises(row) ==
    \/ IntCellRaises(row.reaction_count)
    \/ IntCellRaises(row.comments_count)
    \/ IntCellRaises(row.share_count)
    \/ FloatOrZeroRaises(row.virality_score)

\* flask_dashboard_api.py, lines 283-296
PostData(row, i) ==
    [ row |-> i,
      reaction_count |-> CsvInt(row.reaction_count),
      comment_count |-> CsvInt(row.comments_count),
      share_count |-> CsvInt(row.share_count),
      Viral_score |-> CsvFloat(row.virality_score) ]

\* flask_dashboard_api.py, lines 315-316: the conversions of a comment row raise
CommentDataRaises(row) ==
    IntOrZeroRaises(row.likes_count) \/ IntOrZeroRaises(row.comments_count)

\* flask_dashboard_api.py, lines 315-335
CommentData(row, i) ==
    [ row |-> i,
      comment_time |-> row.timestamp,
      comment_likes |-> CsvInt(row.likes_count),
      comment_replies |-> CsvInt(row.comments_count),
      virality_score |-> CsvInt(row.likes_count) + CsvInt(row.comments_count) * 2 ]

\* Lines 303-339: comments_data when the loop ends. The try of line 303 is
\* around the whole loop: a row that raises ends it, and the rows before it
\* stay in comments_data.
RECURSIVE CommentsData(_, _)
CommentsData(rows, i) ==
    IF i > Len(rows) \/ CommentDataRaises(rows[i]) THEN <<>>
    ELSE <<CommentData(rows[i], i)>> \o CommentsData(rows, i + 1)

\* POST /api/full_data of flask_dashboard_api.py, lines 245-358. content_ok:
\* the body is a JSON object whose 'content' is 'give_full_data'.
post_full_data(content_ok) ==
    /\ resp' =
          IF ~content_ok THEN [ op |-> "full_data", code |-> 400 ]
          ELSE IF \E i \in 1..Len(csv.posts) : PostDataRaises(csv.posts[i])
               THEN [ op |-> "full_data", code |-> 500 ]
          ELSE LET posts_data == [i \in 1..Len(csv.posts) |-> PostData(csv.posts[i], i)]
                   comments_data == CommentsData(csv.comments, 1)
               IN  [ op |-> "full_data", code |-> 200,
                     Posts |-> posts_data, Comments |-> comments_data,
                     Summary |-> [ total_posts |-> Len(posts_data),
                                   total_comments |-> Len(comments_data),
                                   posts_csv_exists |-> csv.posts_file_exists ] ]
    /\ UNCHANGED <<scraper_status, threads, now, nreq, FULL_DATA, DASHBOARD_DATA, fs, api_key,
                 ncalls, csv>>

PostRow(v, r, c, sh) ==
    [ virality_score |-> v, reaction_count |-> r, comments_count |-> c, share_count |-> sh ]
\* A comment row; its virality_score column, which no line reads, says 7.
CommentRow(l, c, t) ==
    [ likes_count |-> l, comments_count |-> c, timestamp |-> t,
      virality_score |-> <<"int", 7>> ]

\* The rows the posts CSV is made of: scores 1, 2 and 1.5, and a row whose
\* reaction_count is no number.
PostRows ==
    { PostRow(<<"int", 1>>, <<"int", 3>>, <<"int", 1>>, <<"int", 0>>),
      PostRow(<<"int", 2>>, <<"int", 1>>, <<"int", 2>>, <<"int", 1>>),
      PostRow(<<"float", 15>>, <<"int", 2>>, <<"int", 0>>, <<"int", 1>>),
      PostRow(<<"int", 2>>, <<"text", 0>>, <<"int", 1>>, <<"int", 1>>) }

\* The rows the comments CSV is made of: scores 0 and 2 twice over with
\* different timestamps, a row without timestamp, rows stamped at the epoch
\* (1970-01-01T00:00:00Z) and a second before it, and a row whose likes are
\* no number and whose timestamp does not parse.
CommentRows ==
    { CommentRow(<<"int", 0>>, <<"empty", 0>>, <<"iso", 1>>),
      CommentRow(<<"empty", 0>>, <<"int", 0>>, <<"iso", 2>>),
      CommentRow(<<"int", 0>>, <<"int", 0>>, <<"empty", 0>>),
      CommentRow(<<"int", 0>>, <<"int", 0>>, <<"iso", 0>>),
      CommentRow(<<"int", 0>>, <<"int", 0>>, <<"iso", -1>>),
      CommentRow(<<"int", 2>>, <<"int", 0>>, <<"iso", 1>>),
      CommentRow(<<"int", 0>>, <<"int", 1>>, <<"iso", 2>>),
      CommentRow(<<"text", 0>>, <<"int", 1>>, <<"text", 0>>) }

SeqsUpTo(S, n) == UNION { [1..k -> S] : k \in 0..n }

InitRank ==
    /\ \E n \in 0..MaxRows :
          csv \in [ posts : SeqsUpTo(PostRows, n),
                    comments : SeqsUpTo(CommentRows, MaxRows - n),
                    posts_file_exists : {TRUE} ]
    /\ resp = NoResp
    /\ scraper_status = InitScraperStatus
    /\ threads = EmptyBag
    /\ now = 0
    /\ nreq = 0
    /\ FULL_DATA = NoFullData
    /\ DASHBOARD_DATA = NoDashboardData
    /\ fs = NoFiles
    /\ api_key = FALSE
    /\ ncalls = 0

NextRank ==
    \/ \E posts_limit \in 0..MaxLimit, comments_limit \in 0..MaxLimit :
          get_action_items(posts_limit, comments_limit)
    \/ \E limit \in 0..MaxLimit : get_top_posts(limit)
    \/ \E content_ok \in BOOLEAN : post_full_data(content_ok)

SpecRank == InitRank /\ [][NextRank]_vars

\* The action item the code makes of the row an item of the result names.
ItemOfRow(item) ==
    IF item.type = "post" THEN PostItem(csv.posts[item.row], item.row)
    ELSE CommentItem(csv.comments[item.row], item.row)

\* The rows of one CSV file that are not among the items of the result.
Excluded(kind, rows) ==
    { r \in 1..Len(rows) :
        \A i \in DOMAIN resp.items : ~(resp.items[i].type = kind /\ resp.items[i].row = r) }

\* C9: get_action_items(a, b) returns the a highest-scoring posts in
\* descending order of virality_score followed by the b highest-scoring
\* comments in descending order: every post precedes every comment, and no
\* excluded post (comment) scores higher than an included post (comment).
C9_TopPostsThenTopComments ==
    resp.op = "get_action_items"
    => LET items == resp.items
           np == Min(resp.posts_limit, Len(csv.posts))
           nc == Min(resp.comments_limit, Len(csv.comments))
       IN  /\ Len(items) = np + nc
           /\ \A i \in 1..np : items[i].type = "post" /\ items[i].row \in 1..Len(csv.posts)
           /\ \A i \in (np + 1)..(np + nc) :
                 items[i].type = "comment" /\ items[i].row \in 1..Len(csv.comments)
           /\ \A i \in DOMAIN items : items[i] = ItemOfRow(items[i])
           /\ \A i, j \in DOMAIN items :
                 (i < j /\ items[i].type = items[j].type)
                 => /\ items[i].row # items[j].row
                    /\ items[i].virality_score >= items[j].virality_score
           /\ \A i \in 1..np : \A r \in Excluded("post", csv.posts) :
                 PostItem(csv.posts[r], r).virality_score <= items[i].virality_score
           /\ \A i \in (np + 1)..(np + nc) : \A r \in Excluded("comment", csv.comments) :
                 CommentItem(csv.comments[r], r).virality_score <= items[i].virality_score

\* C9 witness: the posts were cut to the limit, the post kept is not the
\* first of the file, and a comment that outscores it still comes after it.
C9_Witness ==
    /\ resp.op = "get_action_items"
    /\ Len(csv.posts) > resp.posts_limit
    /\ resp.posts_limit = 1
    /\ resp.comments_limit >= 1
    /\ Len(resp.items) = 2
    /\ resp.items[1].type = "post"
    /\ resp.items[1].row > 1
    /\ resp.items[1].virality_score > PostItem(csv.posts[1], 1).virality_score
    /\ resp.items[2].type = "comment"
    /\ resp.items[2].virality_score > resp.items[1].virality_score

\* C10: of two comments with equal virality_score whose timestamps both
\* parse, the one with the later timestamp appears first.
C10_LaterTimestampFirst ==
    resp.op = "get_action_items"
    => \A i, j \in DOMAIN resp.items :
          ( /\ i < j
            /\ resp.items[i].type = "comment" /\ resp.items[j].type = "comment"
            /\ resp.items[i].virality_score = resp.items[j].virality_score
            /\ resp.items[i].timestamp[1] = "iso" /\ resp.items[j].timestamp[1] = "iso" )
          => resp.items[i].timestamp[2] >= resp.items[j].timestamp[2]

\* C10 witness: two comments of equal score, the later one second in the
\* file and first in the result.
C10_Witness ==
    /\ resp.op = "get_action_items"
    /\ \E i, j \in DOMAIN resp.items :
          /\ i < j
          /\ resp.items[i].type = "comment" /\ resp.items[j].type = "comment"
          /\ resp.items[i].virality_score = resp.items[j].virality_score
          /\ resp.items[i].timestamp[1] = "iso" /\ resp.items[j].timestamp[1] = "iso"
          /\ resp.items[i].timestamp[2] > resp.items[j].timestamp[2]
          /\ resp.items[i].row > resp.items[j].row

\* C11: among the comments of the result with equal virality_score, a
\* comment whose timestamp is missing or does not parse never appears ahead
\* of a comment whose timestamp parses.
C11_MissingTimestampLast ==
    resp.op = "get_action_items"
    => \A i, j \in DOMAIN resp.items :
          ( /\ i < j
            /\ resp.items[i].type = "comment" /\ resp.items[j].type = "comment"
            /\ resp.items[i].virality_score = resp.items[j].virality_score )
          => ~( /\ resp.items[i].timestamp[1] # "iso"
                /\ resp.items[j].timestamp[1] = "iso" )

\* What one numeric cell alone converts to: its value when it parses, 0
\* when it is missing or no number.
FieldFloat(cell) == IF FloatRaises(cell) THEN 0 ELSE CsvFloat(cell)
FieldInt(cell) == IF IntCellRaises(cell) THEN 0 ELSE CsvInt(cell)

\* C14: in the post records of get_action_items and get_top_posts each
\* numeric field is converted on its own: a field that is missing or no
\* number is 0, and every other numeric field of the same row keeps its
\* parsed value.
C14_PerFieldZero ==
    resp.op \in {"get_action_items", "get_top_posts"}
    => \A i \in DOMAIN resp.items :
          resp.items[i].type = "post"
          => LET row == csv.posts[resp.items[i].row]
             IN  /\ resp.items[i].virality_score = FieldFloat(row.virality_score)
                 /\ resp.items[i].reaction_count = FieldInt(row.reaction_count)
                 /\ resp.items[i].comments_count = FieldInt(row.comments_count)
                 /\ resp.items[i].share_count = FieldInt(row.share_count)

\* C15: a row with a numeric field that is no number never aborts the
\* processing of the other rows: get_action_items and get_top_posts, asked
\* for at least as many items as there are rows, return one record per row,
\* and POST /api/full_data with a valid body answers 200 with one record per
\* post row and one per comment row.
C15_RowsNeverAbort ==
    /\ ( /\ resp.op = "get_action_items"
         /\ resp.posts_limit >= Len(csv.posts)
         /\ resp.comments_limit >= Len(csv.comments) )
       => Len(resp.items) = Len(csv.posts) + Len(csv.comments)
    /\ ( resp.op = "get_top_posts" /\ resp.limit >= Len(csv.posts) )
       => Len(resp.items) = Len(csv.posts)
    /\ ( resp.op = "full_data" /\ resp.code # 400 )
       => /\ resp.code = 200
          /\ Len(resp.Posts) = Len(csv.posts)
          /\ Len(resp.Comments) = Len(csv.comments)

\* C22: in every comment record that get_action_items and POST
\* /api/full_data produce, virality_score is the likes count the record
\* reports plus twice the replies count it reports (scores of action items
\* are in tenths), whatever the row's own virality_score column says and
\* also when the row's counts were no numbers.
C22_CommentScoreComputed ==
    /\ resp.op = "get_action_items"
       => \A i \in 1..Len(resp.items) :
             resp.items[i].type = "comment"
             => resp.items[i].virality_score
                  = 10 * (resp.items[i].reaction_count + 2 * resp.items[i].comments_count)
    /\ (resp.op = "full_data" /\ resp.code = 200)
       => \A i \in 1..Len(resp.Comments) :
             resp.Comments[i].virality_score
               = resp.Comments[i].comment_likes + 2 * resp.Comments[i].comment_replies

\* C22 witness: get_action_items has returned a comment with one reply and
\* score 2, and a comment whose likes were no number, with score 0.
C22_Witness ==
    /\ resp.op = "get_action_items"
    /\ \E i, j \in 1..Len(resp.items) :
          /\ resp.items[i].type = "comment"
          /\ resp.items[i].comments_count = 1
          /\ resp.items[i].virality_score = 20
          /\ resp.items[j].type = "comment"
          /\ csv.comments[resp.items[j].row].likes_count = <<"text", 0>>
          /\ resp.items[j].virality_score = 0

(***************************************************************************)
(* dashboard_analytics.py: the distributions of the posts CSV.             *)
(*                                                                         *)
(* A label cell (category, sentiment, emotion) is <<kind, text>>:          *)
(*   <<"text", s>>   the text s as the file has it, '' included            *)
(*   <<"none", "">>  None: the row is shorter than the header              *)
(* A percentage "n%" is the integer n.                                     *)
(***************************************************************************)
MaxStatRows == 3     \* rows of the posts CSV in SpecStats

\* str.lower() on the texts the rows below use
Lower(text) ==
    CASE text = "Complaint" -> "complaint"
      [] text = "NEGATIVE" -> "negative"
      [] text = "Frustration" -> "frustration"
      [] OTHER -> text

\* row.get(col, '').lower() raises AttributeError: the cell is None
LowerRaises(cell) == cell[1] = "none"

\* lines 80 and 201: the keys of the counting dicts
CategoryKeys == {"inquiry", "suggestion", "complaint", "praise", "other"}
EmotionKeys == {"neutral", "joy", "confusion", "frustration"}
SentimentKeys == {"positive", "negative", "neutral"}

\* lines 88-92: the key of `categories` a row is counted under
CategoryOf(row) ==
    LET category == Lower(row.category[2])
    IN  IF category \in CategoryKeys THEN category ELSE "other"

\* lines 211-217
SentimentOf(row) ==
    LET sentiment == Lower(row.sentiment[2])
    IN  CASE sentiment = "positive" -> "positive"
          [] sentiment = "negative" -> "negative"
          [] OTHER -> "neutral"

\* lines 227-231
EmotionOf(row) ==
    LET emotion == Lower(row.emotion[2])
    IN  IF emotion \in EmotionKeys THEN emotion ELSE "neutral"

\* round(x) of Python for x = num / den >= 0: to the nearest integer, a tie
\* going to the even one
RoundHalfEven(num, den) ==
    LET q == num \div den
        r == num % den
    IN  IF 2 * r < den THEN q
        ELSE IF 2 * r > den THEN q + 1
        ELSE IF q % 2 = 0 THEN q ELSE q + 1

\* Lines 100, 239-241 and 245: f"{round((count / total_posts) * 100)}%".
\* The quotient is a float; for total_posts below 40 its rounding is that of
\* the exact quotient (23 of 40 is the first count for which it is not).
Percent(count, total_posts) == RoundHalfEven(100 * count, total_posts)

\* lines 71-78 and 107-114
ZeroCategories ==
    [ inquiry |-> 0, suggestions |-> 0, complaint |-> 0, praise |-> 0, other |-> 0,
      total_number_of_posts |-> 0 ]

\* lines 190-195 and 258-263
ZeroSentiment ==
    [ bank_sentiment_score |-> 0, engagement_weighted_sentiment |-> 0,
      sentiment_distribution |-> [k \in SentimentKeys |-> 0],
      emotion_distribution |-> [k \in EmotionKeys |-> 0] ]

\* get_post_categories_percentage, lines 60-114: the dict returned for a
\* posts file that exists (or not) and holds `rows`. A None category raises
\* inside the loop and the except clause of line 104 leads to line 107.
PostCategoriesPercentage(exists, rows) ==
    LET total_posts == Len(rows)
        count(cat) == Cardinality({ i \in 1..Len(rows) : CategoryOf(rows[i]) = cat })
    IN  IF ~exists THEN ZeroCategories
        ELSE IF \E i \in 1..Len(rows) : LowerRaises(rows[i].category) THEN ZeroCategories
        ELSE IF total_posts > 0
             THEN [ inquiry |-> Percent(count("inquiry"), total_posts),
                    suggestions |-> Percent(count("suggestion"), total_posts),
                    complaint |-> Percent(count("complaint"), total_posts),
                    praise |-> Percent(count("praise"), total_posts),
                    other |-> Percent(count("other"), total_posts),
                    total_number_of_posts |-> total_posts ]
             ELSE ZeroCategories

\* lines 220-224: the sum of the virality scores that float() accepts, in
\* tenths
RECURSIVE TotalVirality(_)
TotalVirality(rows) ==
    IF rows = <<>> THEN 0
    ELSE TotalVirality(Front(rows))
         + ( IF FloatRaises(Last(rows).virality_score) THEN 0
             ELSE CsvFloat(Last(rows).virality_score) )

\* get_sentiment_analysis, lines 179-263. A None sentiment or emotion raises
\* inside the loop and the except clause of line 256 returns the zeros; a
\* file without rows leaves both distributions the empty dict of lines
\* 234-235.
SentimentAnalysis(exists, rows) ==
    LET total_posts == Len(rows)
        sentiments(k) == Cardinality({ i \in 1..Len(rows) : SentimentOf(rows[i]) = k })
        emotions(k) == Cardinality({ i \in 1..Len(rows) : EmotionOf(rows[i]) = k })
    IN  IF ~exists THEN ZeroSentiment
        ELSE IF \E i \in 1..Len(rows) :
                   LowerRaises(rows[i].sentiment) \/ LowerRaises(rows[i].emotion)
             THEN ZeroSentiment
        ELSE [ bank_sentiment_score |-> sentiments("positive") - sentiments("negative"),
               engagement_weighted_sentiment |-> TotalVirality(rows),
               sentiment_distribution |->
                   IF total_posts > 0
                   THEN [k \in SentimentKeys |-> Percent(sentiments(k), total_posts)]
                   ELSE <<>>,
               emotion_distribution |->
                   IF total_posts > 0
                   THEN [k \in EmotionKeys |-> Percent(emotions(k), total_posts)]
                   ELSE <<>> ]

StatsFrame ==
    UNCHANGED <<scraper_status, threads, now, nreq, FULL_DATA, DASHBOARD_DATA, fs, api_key,
                 ncalls, csv>>

\* a call of get_post_categories_percentage()
get_post_categories_percentage ==
    /\ resp' = [ op |-> "get_post_categories_percentage", code |-> 200,
                 result |-> PostCategoriesPercentage(csv.posts_file_exists, csv.posts) ]
    /\ StatsFrame

\* a call of get_sentiment_analysis()
get_sentiment_analysis ==
    /\ resp' = [ op |-> "get_sentiment_analysis", code |-> 200,
                 result |-> SentimentAnalysis(csv.posts_file_exists, csv.posts) ]
    /\ StatsFrame

\* A row of the posts CSV with its labels and its numeric cells.
StatRow(category, sentiment, emotion, numbers) ==
    [ category |-> category, sentiment |-> sentiment, emotion |-> emotion,
      virality_score |-> numbers.virality_score,
      reaction_count |-> numbers.reaction_count,
      comments_count |-> numbers.comments_count,
      share_count |-> numbers.share_count ]

\* The rows the posts CSV is made of: known labels in lower and in mixed
\* case, labels the counting dicts do not know, empty cells, a score that is
\* no number, a reaction count that is no number next to a score that is
\* one, and two rows cut short (None from some column on).
StatRows ==
    { StatRow(<<"text", "inquiry">>, <<"text", "positive">>, <<"text", "joy">>,
              PostRow(<<"int", 2>>, <<"int", 1>>, <<"int", 0>>, <<"int", 0>>)),
      StatRow(<<"text", "Complaint">>, <<"text", "NEGATIVE">>, <<"text", "Frustration">>,
              PostRow(<<"float", 15>>, <<"int", 2>>, <<"int", 1>>, <<"int", 0>>)),
      StatRow(<<"text", "suggestions">>, <<"text", "mixed">>, <<"text", "anger">>,
              PostRow(<<"text", 0>>, <<"int", 1>>, <<"int", 1>>, <<"int", 1>>)),
      StatRow(<<"text", "praise">>, <<"text", "neutral">>, <<"text", "confusion">>,
              PostRow(<<"int", 1>>, <<"int", 0>>, <<"int", 0>>, <<"int", 0>>)),
      StatRow(<<"text", "">>, <<"text", "">>, <<"text", "">>,
              PostRow(<<"empty", 0>>, <<"int", 0>>, <<"int", 0>>, <<"int", 0>>)),
      StatRow(<<"text", "inquiry">>, <<"text", "positive">>, <<"text", "joy">>,
              PostRow(<<"int", 2>>, <<"text", 0>>, <<"int", 1>>, <<"int", 1>>)),
      StatRow(<<"text", "praise">>, <<"none", "">>, <<"none", "">>,
              PostRow(<<"none", 0>>, <<"none", 0>>, <<"none", 0>>, <<"none", 0>>)),
      StatRow(<<"none", "">>, <<"none", "">>, <<"none", "">>,
              PostRow(<<"none", 0>>, <<"none", 0>>, <<"none", 0>>, <<"none", 0>>)) }

InitStats ==
    /\ \E exists \in BOOLEAN :
          csv \in [ posts : IF exists THEN SeqsUpTo(StatRows, MaxStatRows) ELSE {<<>>},
                    comments : {<<>>},
                    posts_file_exists : {exists} ]
    /\ resp = NoResp
    /\ scraper_status = InitScraperStatus
    /\ threads = EmptyBag
    /\ now = 0
    /\ nreq = 0
    /\ FULL_DATA = NoFullData
    /\ DASHBOARD_DATA = NoDashboardData
    /\ fs = NoFiles
    /\ api_key = FALSE
    /\ ncalls = 0

NextStats ==
    \/ get_post_categories_percentage
    \/ get_sentiment_analysis

SpecStats == InitStats /\ [][NextStats]_vars

\* The bucket the rows should be counted under: the lower-cased label when
\* it is one of the known ones, the default otherwise.
BucketOf(cell, known, default) ==
    IF cell[1] = "text" /\ Lower(cell[2]) \in known THEN Lower(cell[2]) ELSE default

\* The percentages of a distribution over `keys` in which every row of the
\* posts CSV is counted once, under BucketOf its cell.
ExpectedDistribution(col, keys, default) ==
    [ k \in keys |->
        Percent(Cardinality({ i \in 1..Len(csv.posts) :
                                BucketOf(csv.posts[i][col], keys, default) = k }),
                Len(csv.posts)) ]

\* C12: with N >= 1 rows in the posts CSV every row is counted in exactly
\* one bucket of each distribution, so that total_number_of_posts is N and
\* the percentages of the category, sentiment and emotion distributions are
\* those of bucket counts that sum to N.
C12_EveryRowCounted ==
    /\ ( resp.op = "get_post_categories_percentage" /\ Len(csv.posts) > 0 )
       => LET expected == ExpectedDistribution("category", CategoryKeys, "other")
          IN  /\ resp.result.total_number_of_posts = Len(csv.posts)
              /\ resp.result.inquiry = expected["inquiry"]
              /\ resp.result.suggestions = expected["suggestion"]
              /\ resp.result.complaint = expected["complaint"]
              /\ resp.result.praise = expected["praise"]
              /\ resp.result.other = expected["other"]
    /\ ( resp.op = "get_sentiment_analysis" /\ Len(csv.posts) > 0 )
       => /\ resp.result.sentiment_distribution
                = ExpectedDistribution("sentiment", SentimentKeys, "neutral")
          /\ resp.result.emotion_distribution
                = ExpectedDistribution("emotion", EmotionKeys, "neutral")

\* A distribution reports every one of its labels as "0%".
AllZero(dist, keys) == DOMAIN dist = keys /\ \A k \in keys : dist[k] = 0

\* C13: when the posts source holds no rows, every label of the category,
\* sentiment and emotion distributions is reported as "0%" and
\* total_number_of_posts, bank_sentiment_score and
\* engagement_weighted_sentiment are 0.
C13_NoRowsAllZero ==
    /\ ( resp.op = "get_post_categories_percentage" /\ Len(csv.posts) = 0 )
       => resp.result = ZeroCategories
    /\ ( resp.op = "get_sentiment_analysis" /\ Len(csv.posts) = 0 )
       => /\ resp.result.bank_sentiment_score = 0
          /\ resp.result.engagement_weighted_sentiment = 0
          /\ AllZero(resp.result.sentiment_distribution, SentimentKeys)
          /\ AllZero(resp.result.emotion_distribution, EmotionKeys)

\* The number of rows of the posts CSV counted under label k of a column.
BucketCount(col, keys, default, k) ==
    Cardinality({ i \in 1..Len(csv.posts) : BucketOf(csv.posts[i][col], keys, default) = k })

\* p is round(count / n * 100): the integer nearest to 100 * count / n, the
\* even one of the two when both are equally near.
IsRounded(p, count, n) ==
    LET d == p * n - 100 * count
        dist == IF d < 0 THEN -d ELSE d
    IN  /\ 2 * dist <= n
        /\ 2 * dist = n => p % 2 = 0

\* C23: for N > 0 rows each label's percentage in the category, sentiment
\* and emotion distributions is round(bucket_count / N * 100), label by
\* label.
C23_PercentIsRounded ==
    LET N == Len(csv.posts)
    IN  /\ ( resp.op = "get_post_categories_percentage" /\ N > 0 )
           => \A k \in CategoryKeys :
                 IsRounded(resp.result[IF k = "suggestion" THEN "suggestions" ELSE k],
                           BucketCount("category", CategoryKeys, "other", k), N)
        /\ ( resp.op = "get_sentiment_analysis" /\ N > 0 )
           => /\ DOMAIN resp.result.sentiment_distribution = SentimentKeys
              /\ DOMAIN resp.result.emotion_distribution = EmotionKeys
              /\ \A k \in SentimentKeys :
                    IsRounded(resp.result.sentiment_distribution[k],
                              BucketCount("sentiment", SentimentKeys, "neutral", k), N)
              /\ \A k \in EmotionKeys :
                    IsRounded(resp.result.emotion_distribution[k],
                              BucketCount("emotion", EmotionKeys, "neutral", k), N)

\* The sum of the virality_score values of a list of records.
RECURSIVE SumOfScores(_)
SumOfScores(items) ==
    IF items = <<>> THEN 0
    ELSE SumOfScores(Front(items)) + Last(items).virality_score

\* C29: engagement_weighted_sentiment of get_sentiment_analysis is the sum
\* of the virality_score values that get_action_items and get_top_posts,
\* asked for every row, give to the rows of the same posts CSV, rows with
\* numeric fields that are no numbers included.
C29_ScoresAgree ==
    resp.op = "get_sentiment_analysis"
    => LET n == Len(csv.posts)
       IN  /\ resp.result.engagement_weighted_sentiment
                 = SumOfScores(IF csv.posts_file_exists
                               THEN ActionItems(csv.posts, <<>>, n, 0) ELSE <<>>)
           /\ resp.result.engagement_weighted_sentiment
                 = SumOfScores(TopPosts(csv.posts_file_exists, csv.posts, n))

\* a is within d of 100
Near100(a, d) == 100 - d <= a /\ a <= 100 + d

\* C30: for N > 0 rows the percentages, each rounded on its own, drift from
\* 100 by a bounded amount: the five category percentages and the four
\* emotion percentages sum to 100 +/- 2, the three sentiment percentages to
\* 100 +/- 1.
C30_BoundedDrift ==
    /\ ( resp.op = "get_post_categories_percentage" /\ Len(csv.posts) > 0 )
       => Near100(resp.result.inquiry + resp.result.suggestions + resp.result.complaint
                  + resp.result.praise + resp.result.other, 2)
    /\ ( resp.op = "get_sentiment_analysis" /\ Len(csv.posts) > 0 )
       => LET sentiment_dist == resp.result.sentiment_distribution
              emotion_dist == resp.result.emotion_distribution
          IN  /\ DOMAIN sentiment_dist = SentimentKeys
              /\ DOMAIN emotion_dist = EmotionKeys
              /\ Near100(sentiment_dist["positive"] + sentiment_dist["negative"]
                         + sentiment_dist["neutral"], 1)
              /\ Near100(emotion_dist["neutral"] + emotion_dist["joy"]
                         + emotion_dist["confusion"] + emotion_dist["frustration"], 2)

(***************************************************************************)
(* main.py: GET /api/action-items.                                         *)
(*                                                                         *)
(* An item of DASHBOARD_DATA['action_items'] is [id, category, sentiment], *)
(* id being its position in the stored list; a label is None when the item *)
(* has no such key, else Some(text). A query parameter is None when the    *)
(* URL does not have it, else Some(text); the limit parameter is a raw     *)
(* <<kind, v>> as for the page arguments.                                  *)
(***************************************************************************)
MaxItems == 3        \* most action items in dashboard_data.json
MaxFilterLimit == 2  \* largest limit asked for

\* request.args.get('limit', type=int), line 75: None when the parameter is
\* absent or int() rejects it
ArgInt(raw) == IF raw[1] = "numstr" THEN Some(raw[2]) ELSE None

\* item.get(key, '') of lines 81 and 84
ItemGet(label) == IF label = None THEN "" ELSE Val(label)

\* a query parameter is truthy: present and not the empty string
Truthy(arg) == arg # None /\ Val(arg) # ""

\* Lines 87-88: `if limit:` is false for None and for 0.
Limited(action_items, limit) ==
    IF limit # None /\ Val(limit) # 0 THEN PySlice(action_items, 0, Val(limit))
    ELSE action_items

\* lines 77-88
FilteredItems(action_items, category, sentiment, limit) ==
    LET by_category ==
            IF Truthy(category)
            THEN SelectSeq(action_items,
                           LAMBDA item : Lower(ItemGet(item.category)) = Lower(Val(category)))
            ELSE action_items
        by_sentiment ==
            IF Truthy(sentiment)
            THEN SelectSeq(by_category,
                           LAMBDA item : Lower(ItemGet(item.sentiment)) = Lower(Val(sentiment)))
            ELSE by_category
    IN  Limited(by_sentiment, limit)

\* GET /api/action-items, lines 68-101
get_filtered_action_items(category, sentiment, raw_limit) ==
    /\ LET data == FilteredItems(DASHBOARD_DATA.action_items, category, sentiment,
                                 ArgInt(raw_limit))
       IN  resp' = [ op |-> "action-items", code |-> 200, success |-> TRUE,
                     request |-> [ category |-> category, sentiment |-> sentiment,
                                   limit |-> raw_limit ],
                     data |-> data, count |-> Len(data) ]
    /\ UNCHANGED <<scraper_status, threads, now, nreq, FULL_DATA, DASHBOARD_DATA, fs, api_key,
                   ncalls, csv>>

\* The labels an action item can carry: known labels in either case, and an
\* item without the two keys.
ItemLabels ==
    { <<Some("Complaint"), Some("NEGATIVE")>>, <<Some("complaint"), Some("negative")>>,
      <<Some("complaint"), Some("positive")>>, <<Some("praise"), Some("negative")>>,
      <<None, None>> }

CategoryArgs == { None, Some(""), Some("complaint"), Some("Complaint") }
SentimentArgs == { None, Some("negative"), Some("NEGATIVE") }
LimitArgs == { <<"absent", 0>>, <<"str", 0>> } \cup { <<"numstr", n>> : n \in (-1)..MaxFilterLimit }

\* dashboard_data.json as loaded at import, lines 14-16
InitFilter ==
    /\ \E labels \in SeqsUpTo(ItemLabels, MaxItems) :
          DASHBOARD_DATA =
              [ action_items |->
                  [ i \in 1..Len(labels) |->
                      [ id |-> i, category |-> labels[i][1], sentiment |-> labels[i][2] ] ] ]
    /\ resp = NoResp
    /\ scraper_status = InitScraperStatus
    /\ threads = EmptyBag
    /\ now = 0
    /\ nreq = 0
    /\ FULL_DATA = NoFullData
    /\ fs = NoFiles
    /\ api_key = FALSE
    /\ ncalls = 0
    /\ csv = NoCsv

NextFilter ==
    \E category \in CategoryArgs, sentiment \in SentimentArgs, raw_limit \in LimitArgs :
        get_filtered_action_items(category, sentiment, raw_limit)

SpecFilter == InitFilter /\ [][NextFilter]_vars

\* The stored items whose category and sentiment both equal the given
\* values, case-insensitively, in stored order.
Matching(category, sentiment) ==
    SelectSeq(DASHBOARD_DATA.action_items,
              LAMBDA item : /\ Lower(ItemGet(item.category)) = Lower(category)
                            /\ Lower(ItemGet(item.sentiment)) = Lower(sentiment))

\* C16: GET /api/action-items with category, sentiment and limit=N returns
\* exactly the first N of the stored items that match both filters: at most
\* N items, each of them matching.
C16_FirstNOfFiltered ==
    ( /\ resp.op = "action-items"
      /\ resp.request.category # None
      /\ resp.request.sentiment # None
      /\ resp.request.limit[1] = "numstr" )
    => LET N == resp.request.limit[2]
           matching == Matching(Val(resp.request.category), Val(resp.request.sentiment))
       IN  /\ resp.data = SubSeq(matching, 1, Min(N, Len(matching)))
           /\ Len(resp.data) <= N
           /\ resp.count = Len(resp.data)

(***************************************************************************)
(* dashboard_analytics.py: the complete dashboard document.                *)
(*                                                                         *)
(* fs.other_banks_file is output/all_extracted_posts/other_banks/          *)
(* all_extracted_posts.txt: None when absent, else Some(m), m giving for    *)
(* each bank the number of matches its patterns have in the text.          *)
(***************************************************************************)
MaxDocCalls == 2     \* calls of get_complete_dashboard_data in SpecDocument

\* the default of get_top_posts(limit), line 265
TOP_POSTS_LIMIT == 10
\* the defaults of lines 321 and 323
ACTION_ITEMS_POSTS_LIMIT == 10
ACTION_ITEMS_COMMENTS_LIMIT == 10

\* lines 46-52: the keys of self.bank_patterns
BankNames == {"prime_bank", "eastern_bank", "brac_bank", "city_bank", "dutch_bangla"}

\* the sum of the values of a function over a finite set of names
RECURSIVE SumOver(_, _)
SumOver(f, names) ==
    IF names = {} THEN 0
    ELSE LET k == CHOOSE k \in names : TRUE
         IN  f[k] + SumOver(f, names \ {k})

\* lines 127-134 and 155-162
ZeroBankMentions == [ k \in BankNames \cup {"total_bank_mentions"} |-> 0 ]

\* get_bank_mentions, lines 116-162; read_ok: the file can be read (line 137)
BankMentions(file, read_ok) ==
    IF file = None THEN ZeroBankMentions
    ELSE IF ~read_ok THEN ZeroBankMentions
    ELSE [ k \in BankNames \cup {"total_bank_mentions"} |->
             IF k \in BankNames THEN Val(file)[k] ELSE SumOver(Val(file), BankNames) ]

\* get_hardcoded_geolocation, lines 164-177
HardcodedGeolocation == [ Dhaka |-> 30, Chittagong |-> 17, Rajshahi |-> 8, Sylhet |-> 9 ]

\* Lines 665-703: the document built from the results of the calls, r being
\* what the overview part of lines 671-673 returned.
DashboardData(mentions_ok, r) ==
    LET post_categories == PostCategoriesPercentage(csv.posts_file_exists, csv.posts)
        bank_mentions == BankMentions(fs.other_banks_file, mentions_ok)
        sentiment_analysis == SentimentAnalysis(csv.posts_file_exists, csv.posts)
    IN  [ last_updated |-> now,
          scraping_status |->
              [ status |-> "completed", last_run |-> now, duration_seconds |-> 0,
                posts_scraped |-> post_categories.total_number_of_posts,
                comments_scraped |-> 0 ],
          kpi |->
              [ total_mentions_of_all_banks |-> bank_mentions["total_bank_mentions"],
                posts_mentioning_prime_bank |-> bank_mentions["prime_bank"],
                bank_sentiment_score |-> sentiment_analysis.bank_sentiment_score,
                engagement_weighted_sentiment |->
                    sentiment_analysis.engagement_weighted_sentiment ],
          sentiment_analysis |->
              [ sentiment_distribution |-> sentiment_analysis.sentiment_distribution,
                top_posts |-> TopPosts(csv.posts_file_exists, csv.posts, TOP_POSTS_LIMIT),
                post_categories |-> post_categories,
                emotion_distribution |-> sentiment_analysis.emotion_distribution ],
          bank_mentions |-> bank_mentions,
          post_geolocation |-> HardcodedGeolocation,
          action_items |->
              ActionItems(csv.posts, csv.comments, ACTION_ITEMS_POSTS_LIMIT,
                          ACTION_ITEMS_COMMENTS_LIMIT),
          ai_overview |-> r[1] ]

\* a call of get_complete_dashboard_data(), lines 657-705, with the whole
\* document it returns
complete_dashboard_data(mentions_ok, read_ok, svc, wr) ==
    /\ nreq < MaxDocCalls
    /\ LET loaded == LoadAiOverviewFromFile(fs.ai_overview_file)
           r == IF loaded = None THEN GenerateAiOverview(TRUE, read_ok, svc, wr)
                ELSE <<Val(loaded), fs.ai_overview_file, 671, FALSE>>
       IN  /\ resp' = [ op |-> "get_complete_dashboard_data", code |-> 200,
                        data |-> DashboardData(mentions_ok, r) ]
           /\ OverviewEffect(r)

\* The texts of the other banks' posts file: empty, and one that mentions
\* two banks.
BankTexts ==
    { [ k \in BankNames |-> 0 ],
      [ k \in BankNames |-> CASE k = "prime_bank" -> 2 [] k = "city_bank" -> 1 [] OTHER -> 0 ] }

\* The source files a run can start with: each of them absent, empty or
\* with content.
InitDocument ==
    /\ \E exists \in BOOLEAN :
          csv \in [ posts : IF exists THEN SeqsUpTo(StatRows, 1) ELSE {<<>>},
                    comments : SeqsUpTo({ CommentRow(<<"int", 0>>, <<"int", 1>>, <<"iso", 2>>) }, 1),
                    posts_file_exists : {exists} ]
    /\ fs \in [ posts_file : {None} \cup { Some(c) : c \in 0..MaxCorpus },
                ai_overview_file : {None, Some(CorruptFile),
                                    Some(CacheData(0, JsonLoads(<<"overview", 1>>)))},
                other_banks_file : {None} \cup { Some(m) : m \in BankTexts } ]
    /\ api_key \in BOOLEAN
    /\ ncalls = 0
    /\ now = 0
    /\ nreq = 0
    /\ resp = NoResp
    /\ scraper_status = InitScraperStatus
    /\ threads = EmptyBag
    /\ FULL_DATA = NoFullData
    /\ DASHBOARD_DATA = NoDashboardData

NextDocument ==
    \E mentions_ok \in BOOLEAN, read_ok \in BOOLEAN,
       svc \in ServiceOutcomes, wr \in WriteOutcomes :
       complete_dashboard_data(mentions_ok, read_ok, svc, wr)

SpecDocument == InitDocument /\ [][NextDocument]_vars

\* Every source file is absent or empty: the two CSV files have no rows,
\* the two text files are absent or hold the empty text, the overview cache
\* is absent or holds nothing that json.load accepts.
SourcesAbsentOrEmpty ==
    /\ csv.posts = <<>>
    /\ csv.comments = <<>>
    /\ fs.other_banks_file \in {None, Some([ k \in BankNames |-> 0 ])}
    /\ fs.posts_file \in {None, Some(0)}
    /\ fs.ai_overview_file \in {None, Some(CorruptFile)}

\* A document with every section and every label key, zero distributions
\* and counters and empty lists.
CompleteZeroDocument(d) ==
    /\ DOMAIN d = {"last_updated", "scraping_status", "kpi", "sentiment_analysis",
                   "bank_mentions", "post_geolocation", "action_items", "ai_overview"}
    /\ DOMAIN d.scraping_status = {"status", "last_run", "duration_seconds",
                                   "posts_scraped", "comments_scraped"}
    /\ d.scraping_status.posts_scraped = 0
    /\ d.kpi = [ total_mentions_of_all_banks |-> 0, posts_mentioning_prime_bank |-> 0,
                 bank_sentiment_score |-> 0, engagement_weighted_sentiment |-> 0 ]
    /\ DOMAIN d.sentiment_analysis = {"sentiment_distribution", "top_posts",
                                      "post_categories", "emotion_distribution"}
    /\ AllZero(d.sentiment_analysis.sentiment_distribution, SentimentKeys)
    /\ AllZero(d.sentiment_analysis.emotion_distribution, EmotionKeys)
    /\ d.sentiment_analysis.post_categories = ZeroCategories
    /\ d.sentiment_analysis.top_posts = <<>>
    /\ d.bank_mentions = ZeroBankMentions
    /\ DOMAIN d.post_geolocation = {"Dhaka", "Chittagong", "Rajshahi", "Sylhet"}
    /\ d.action_items = <<>>

\* C24: for every combination of absent or empty source files
\* get_complete_dashboard_data returns, without raising, a document with
\* every section and every label key, zero distributions and counters and
\* empty lists.
C24_CompleteDocument ==
    [][ (SourcesAbsentOrEmpty /\ nreq' # nreq)
        => /\ resp'.op = "get_complete_dashboard_data"
           /\ resp'.code = 200
           /\ CompleteZeroDocument(resp'.data) ]_vars

(***************************************************************************)
(* flask_dashboard_api.py: the requests and the worker threads together.   *)
(***************************************************************************)

\* POST /api/dashboard, lines 160-190: get_complete_dashboard_data()
\* (dashboard_analytics.py lines 657-705) followed by the copy of
\* scraper_status of line 180. content_ok: the body is a JSON object whose
\* 'content' is 'give_full_data'. The analytics read the CSV files and the
\* overview cache, which no worker step writes, and scraper_status is read
\* once, by dict.copy(), so the handler is one step. bank_mentions and
\* post_geolocation are left out of the response.
get_dashboard_data(content_ok, read_ok, svc, wr) ==
    IF ~content_ok
    THEN /\ resp' = [ op |-> "api/dashboard", code |-> 400 ]
         /\ UNCHANGED <<scraper_status, threads, now, nreq, fs, ncalls>>
         /\ UNCHANGED <<FULL_DATA, DASHBOARD_DATA, api_key, csv>>
    ELSE LET loaded == LoadAiOverviewFromFile(fs.ai_overview_file)
             r == IF loaded = None THEN GenerateAiOverview(TRUE, read_ok, svc, wr)
                  ELSE <<Val(loaded), fs.ai_overview_file, 671, FALSE>>
         IN  /\ resp' =
                   [ op |-> "api/dashboard", code |-> 200,
                     post_categories |->
                         PostCategoriesPercentage(csv.posts_file_exists, csv.posts),
                     sentiment_analysis |->
                         SentimentAnalysis(csv.posts_file_exists, csv.posts),
                     top_posts |-> TopPosts(csv.posts_file_exists, csv.posts, TOP_POSTS_LIMIT),
                     action_items |->
                         ActionItems(csv.posts, csv.comments, ACTION_ITEMS_POSTS_LIMIT,
                                     ACTION_ITEMS_COMMENTS_LIMIT),
                     ai_overview |-> r[1],
                     scraping_status |-> StatusSnapshot(scraper_status) ]
             /\ fs' = [fs EXCEPT !.ai_overview_file = r[2]]
             /\ ncalls' = IF r[4] THEN ncalls + 1 ELSE ncalls
             /\ UNCHANGED <<scraper_status, threads, now, nreq>>
             /\ UNCHANGED <<FULL_DATA, DASHBOARD_DATA, api_key, csv>>

InitScraper ==
    /\ scraper_status = InitScraperStatus
    /\ threads = EmptyBag
    /\ now = 0
    /\ nreq = 0
    /\ resp = NoResp
    /\ FULL_DATA = NoFullData
    /\ DASHBOARD_DATA = NoDashboardData
    /\ fs = NoFiles
    /\ api_key = FALSE
    /\ ncalls = 0
    /\ csv = NoCsv

\* The bodies of the reanalyze requests: one without the right 'content',
\* the defaults, every kind of count as prime_bank_posts, and a count too
\* large, one that is no number and one with a fraction as other_banks_posts.
ReanalyzeBodies ==
    { <<FALSE, <<"absent", 0>>, <<"absent", 0>>>> }
    \cup { <<TRUE, raw, <<"absent", 0>>>> : raw \in RawCounts }
    \cup { <<TRUE, <<"absent", 0>>, raw>> :
              raw \in { <<"int", 201>>, <<"str", 0>>, <<"float", 15>> } }

\* In SpecScraper there is no posts file, so a dashboard request returns
\* the overview of lines 485-490 without reading the posts, calling the
\* narrative service or writing the cache: one outcome of each is enough.
NextScraper ==
    \/ \E body \in ReanalyzeBodies : Reanalyze(body[1], body[2], body[3])
    \/ GetScraperStatus
    \/ \E content_ok \in BOOLEAN :
          get_dashboard_data(content_ok, TRUE, <<"raise", 0>>, "ok")
    \/ Tick
    \/ \E t \in BagToSet(threads) : run_scraper(t)

SpecScraper == InitScraper /\ [][NextScraper]_vars


\* Every started thread is scheduled again and again, the pipeline
\* subprocess exits or fails to launch, and the loop over the finite list
\* output_lines comes to its end.
FairWorkers ==
    /\ WF_vars(\E t \in BagToSet(threads) : W_l68(t))
    /\ WF_vars(\E t \in BagToSet(threads) : W_l69(t))
    /\ WF_vars(\E t \in BagToSet(threads) :
                  \/ \E return_code \in {0, 1} : W_l76_exit(t, return_code)
                  \/ W_l76_raise(t))
    /\ WF_vars(\E t \in BagToSet(threads) : W_set_status(t))
    /\ WF_vars(\E t \in BagToSet(threads) : W_set_last_run(t))
    /\ WF_vars(\E t \in BagToSet(threads) : W_set_duration(t))
    /\ WF_vars(\E t \in BagToSet(threads) : W_l118_end(t))
    /\ WF_vars(\E t \in BagToSet(threads) : W_l146(t))
    /\ WF_vars(\E t \in BagToSet(threads) : W_l147(t))

MaxFairReq == 1      \* HTTP requests handled in one behaviour of SpecScraperFair

\* SpecScraper with fewer requests in a behaviour and fair workers.
NextScraperFair == NextScraper /\ nreq' <= MaxFairReq

SpecScraperFair == InitScraper /\ [][NextScraperFair]_vars /\ FairWorkers

\* C1: whatever the interleaving of POST /api/reanalyze requests and worker
\* steps, at most one run_scraper worker is active at any time.
C1_AtMostOneActiveWorker == ActiveWorkers <= 1

\* C2: a POST /api/reanalyze handled while scraper_status['status'] is
\* 'running' returns 400, starts no worker and leaves scraper_status as it
\* was; and a worker is started only by the step that answers a reanalyze
\* request with 200, so no run starts later on behalf of a rejected request.
C2_RejectedWhileRunning ==
    [][ /\ ( /\ nreq' # nreq
             /\ resp'.op = "reanalyze"
             /\ scraper_status.status = "running" )
           => ( /\ resp'.code = 400
                /\ threads' = threads
                /\ scraper_status' = scraper_status )
        /\ BagCardinality(threads') > BagCardinality(threads)
           => ( /\ resp'.op = "reanalyze"
                /\ resp'.code = 200
                /\ scraper_status.status # "running"
                /\ BagCardinality(threads') = BagCardinality(threads) + 1 )
      ]_vars

\* A post-count parameter as the request should give it: left out, or a JSON
\* integer between 1 and 200.
ValidCount(raw) == raw[1] = "absent" \/ (raw[1] = "int" /\ raw[2] >= 1 /\ raw[2] <= 200)

\* C18: POST /api/reanalyze starts a run only when prime_bank_posts and
\* other_banks_posts are both integers in 1..200 (or left to their defaults);
\* when either is below 1, above 200 or not an integer the answer is 400, no
\* worker is started and scraper_status is unchanged.
C18_OnlyValidCountsStart ==
    [][ ( /\ nreq' # nreq
          /\ resp'.op = "reanalyze"
          /\ ~( /\ ValidCount(resp'.request.prime_bank_posts)
                /\ ValidCount(resp'.request.other_banks_posts) ) )
        => ( /\ resp'.code = 400
             /\ threads' = threads
             /\ scraper_status' = scraper_status )
      ]_vars

\* C2 witness: a request has just been refused because a run is active.
C2_Witness ==
    /\ resp.op = "reanalyze"
    /\ resp.code = 400
    /\ resp.error = "already running"
    /\ scraper_status.status = "running"
    /\ ActiveWorkers >= 1

EndStatuses == {"completed", "failed"}

\* C19: under fair scheduling every started run comes to its end: whenever
\* a worker is active, or the status reads 'running', the status later
\* reads 'completed' or 'failed', and the workers all return, leaving it so;
\* and no step takes the status back to 'idle'.
C19_RunsToCompletion ==
    /\ [](ActiveWorkers > 0
          => <>(ActiveWorkers = 0 /\ scraper_status.status \in EndStatuses))
    /\ [](scraper_status.status = "running" => <>(scraper_status.status \in EndStatuses))
    /\ [][scraper_status.status # "idle" => scraper_status'.status # "idle"]_vars

\* C19 witness: a run has been started and has returned, and the status
\* tells how it ended.
C19_Witness ==
    /\ nreq >= 1
    /\ ActiveWorkers = 0
    /\ scraper_status.status \in EndStatuses
    /\ scraper_status.last_run # None

\* The snapshot a status or dashboard response carries.
Snapshot == IF resp.op = "status" THEN resp.body ELSE resp.scraping_status

\* The values a worker that has written its end status is still to write.
PendingLastRun(t) ==
    CASE t.pc \in {"l113", "l138"} -> Some(t.end_time)
      [] t.pc = "l146" -> Some(now)
      [] OTHER -> Snapshot.last_run
PendingDuration(t) ==
    CASE t.pc \in {"l113", "l114", "l138", "l139"} -> t.duration
      [] t.pc \in {"l146", "l147"} /\ scraper_status.start_time # None ->
            now - Val(scraper_status.start_time)
      [] OTHER -> Snapshot.duration_seconds

\* C20: a status snapshot (GET /api/status, or scraping_status of POST
\* /api/dashboard) that reports 'completed' or 'failed' carries the last_run
\* and duration_seconds of the run that ended: a last_run is there, and no
\* worker that has written its end status is still to write another
\* last_run or duration_seconds than the snapshot shows.
C20_ConsistentSnapshot ==
    ( /\ resp.op \in {"status", "api/dashboard"}
      /\ resp.code = 200
      /\ Snapshot.status \in EndStatuses )
    => /\ Snapshot.last_run # None
       /\ \A t \in BagToSet(threads) :
             t.pc \in {"l113", "l114", "l138", "l139", "l146", "l147"}
             => /\ PendingLastRun(t) = Snapshot.last_run
                /\ PendingDuration(t) = Snapshot.duration_seconds

\* The statements of run_scraper before the one that writes how the run
\* ended (lines 112, 137 and 145).
BeforeEndStatus == {"l68", "l69", "l76", "l112", "l137", "l145"}

\* C26: once POST /api/reanalyze has answered 'running' and started a run,
\* every status read (GET /api/status, scraping_status of POST
\* /api/dashboard) handled while that run has not yet written its end
\* status reports 'running'.
C26_RunningOnceAnswered ==
    ( /\ resp.op \in {"status", "api/dashboard"}
      /\ resp.code = 200
      /\ \E t \in BagToSet(threads) : t.pc \in BeforeEndStatus )
    => Snapshot.status = "running"

\* The numbers a line of the given kind can hold first.
ParsedNumbers(kind) ==
    { line[2][1] : line \in { l \in OutputLine : l[1] = kind /\ l[2] # <<>> } }

====
